---------------------------- MODULE Spec2Model ----------------------------
(***************************************************************************)
(* Verification model of the industrial gateway runtime                   *)
(* (src/runtime/industrial): the MODBUS TCP protocol engine, the TCP      *)
(* transport and the poll scheduler.                                      *)
(*                                                                         *)
(* Each subsystem has its own specifications over its own variables        *)
(* (SpecModbus, SpecModbusConc; SpecTcp, SpecTcpConnect; SpecSched,        *)
(* SpecBackoff); the variables of the other subsystems stay at their       *)
(* initial values.                                                         *)
(***************************************************************************)
EXTENDS Integers, Sequences, FiniteSets, Bags, TLC

(***************************************************************************)
(* Bounds of the model.                                                    *)
(***************************************************************************)
\* Width of the transaction id counter in the model.  The code's counter is
\* an AtomicU16 (modbus.rs:24); the model keeps the wrap-around arithmetic
\* (% 2^w) at a width small enough for the wrap to be explored.
TxIdBits == 3
\* Number of tasks that call read() concurrently on one ModbusTcpClient.
NumReaders == 2
\* Number of send_receive calls that the transport lets fail.
MaxTransportFailures == 1

\* Number of tasks that use one TcpClient concurrently.
NumTcpTasks == 2
\* max_reconnect_attempts of the configurations explored besides 0 (= retry
\* for ever).
ReconnectLimit == 2
\* Connection attempts one connect() call is followed through.
MaxAttempts == 3
\* Timeouts and resets injected into send_receive.
MaxTcpFaults == 1
\* Frames written to one session whose responses have not been read yet.
MaxPending == 2

\* Time is counted in ticks of the scheduler clock.  The code counts
\* nanoseconds; the model keeps every conversion of the code and gives the
\* conversion factors small values: one second (1_000_000_000 ns in
\* mod.rs:316) is NsPerSecond ticks, one millisecond (1_000_000 ns in
\* mod.rs:373) is NsPerMs ticks, and the idle sleep of the run loop (10 ms in
\* mod.rs:387) is IdleSleepMs milliseconds.
NsPerSecond == 4
NsPerMs == 1
IdleSleepMs == 2
\* Ticks the clock is followed for after the scheduler was created.
Horizon == 3
\* max_polls_per_second ranges over 2 .. MaxRate.
MaxRate == 3
\* max_backoff_interval_ms of the configurations explored (default 60000).
MaxBackoffMs == 6
\* add_poll calls that are followed.
MaxAdds == 2
\* Consecutive failures reported for one poll.
MaxFailures == 4
\* poll_complete calls that are followed.
MaxCompletes == 4
\* Number of tasks that call process_raw concurrently on one StreamEmitter.
NumEmitTasks == 2
\* process_raw calls that are followed.
MaxProcessCalls == 2
\* StateChange events after which no further connect or disconnect call is
\* followed.
MaxStateEvents == 2
\* MODBUS exception codes are u8: they range over 0 .. MaxExceptionCode.
MaxExceptionCode == 255
\* reconnect_delay ranges over 1 .. MaxReconnectDelay seconds.
MaxReconnectDelay == 6
\* Failed reconnection attempts whose delay is computed.
MaxDelayAttempts == 10
\* gateway/lite.rs:26-28
MAX_DEVICES == 10
MAX_REGISTERS == 256
MAX_ALARMS == 64
\* Duration::from_secs(30), tcp.rs:182
ReconnectDelayCap == 30
\* Number of tasks that call process and flush concurrently on one bridge.
NumBridgeTasks == 2
\* process and flush calls that are followed.
MaxBridgeCalls == 3
\* Number of tasks that call process_raw, add_register and add_alarm on one
\* StreamEmitter concurrently.
NumLockTasks == 3
\* Capacity of the bridge output channel where it is made to fill up.
FullCapacity == 1
\* mpsc::channel(256) of lex events in GatewayLite::new.
OutputCapacity == 256

TxIdModulus == 2 ^ TxIdBits
TxIds == 0 .. (TxIdModulus - 1)
Readers == 1 .. NumReaders
Rates == 2 .. MaxRate
\* The poll ids and the register configurations (poll interval in ms,
\* priority) of the poll items the scheduler is driven with.
PollIds == {1, 2}
RegisterConfigs ==
    {[poll_interval_ms |-> 1, priority |-> 2],
     [poll_interval_ms |-> 2, priority |-> 1]}

VARIABLES
    \* ---- ModbusTcpClient (protocol/modbus.rs) ----
    transaction_id,   \* AtomicU16 counter
    inflight,         \* transaction id -> request id
    m_pc,             \* position of each reader inside read()
    m_req,            \* the ModbusReadRequest of each reader
    m_tid,            \* the transaction id read() allocated
    m_frame,          \* the request frame read() built
    m_resp,           \* the response bytes send_receive returned
    m_result,         \* what read() returned
    m_events,         \* ModbusEvents sent by the reader's current read()
    m_failures,       \* transport failures so far
    \* ---- TcpClient (transport/tcp.rs) ----
    max_reconnect_attempts,  \* TcpConfig::max_reconnect_attempts
    state,            \* RwLock<ConnectionState>
    stream,           \* Mutex<Option<TcpStream>>: TRUE when Some
    stream_lock,      \* the task that holds the stream mutex across steps, or 0
    reconnect_count,  \* RwLock<u32>
    wire,             \* callers whose frames the peer has still to answer
    t_pc,             \* position of each task inside its call
    t_op,             \* the call a task is in, or last returned from
    t_attempts,       \* `attempts` of reconnect() (0: not in reconnect)
    t_lasterr,        \* the error of the task's last failed try_connect
    t_result,         \* what the task's call returned
    t_got,            \* the caller whose frame the bytes read answer
    t_faults,         \* timeouts and resets injected so far
    t_quiet,          \* disconnect() returned and connect() was not called since
    has_events,       \* the client was built with an event channel
    state_events,     \* the StateChange events sent on event_tx, in order
    t_ev,             \* per task: the StateChange event set_state has still to send
    \* ---- PollScheduler (scheduler/mod.rs) ----
    config,           \* SchedulerConfig
    items,            \* RwLock<HashMap<u32, PollItem>>
    status,           \* RwLock<HashMap<u32, PollStatus>>
    schedule,         \* Mutex<BinaryHeap<ScheduleEntry>>, as a bag of entries
    sequence,         \* AtomicU64 sequence counter
    running,          \* AtomicBool
    trigger_rx_open,  \* the receiver of the trigger channel was not dropped
    returned_rx,      \* the channel whose receiver PollScheduler::new returned
    triggers,         \* the PollTriggers sent on trigger_tx, in order
    clock,            \* what timestamp_ns() returns
    r_pc,             \* position of the task inside run()
    min_interval_ns,  \* local of run()
    last_poll_ns,     \* local of run()
    r_now,            \* `now` of the current iteration
    r_entry,          \* the entry popped in the current iteration
    r_item,           \* the item cloned in the current iteration
    r_actual,         \* `actual_time` of the current iteration
    r_wake,           \* the time at which the current sleep is over
    h_pc,             \* position of the host task inside add_poll / remove_poll
    h_item,           \* the item passed to add_poll, the id passed to remove_poll
    h_now,            \* `now` of add_poll
    h_adds,           \* add_poll calls so far
    g_epoch,          \* per poll id: add_poll calls begun plus add_poll calls ended
    g_dispatch,       \* per trigger sent: the interval of the item cloned for it,
                      \* the poll's g_epoch and g_removed at that moment
    g_failures,       \* per poll id: failures reported since the last success
                      \* or add_poll
    g_stop_called,    \* stop() was called after run() was
    g_removed,        \* per poll id: remove_poll returned and add_poll was not
                      \* called since
    g_complete,       \* the last poll_complete call and the number of calls
    \* ---- StreamEmitter (emitter/mod.rs) ----
    e_setup,          \* the configuration of the registers and of the alarm
    registers,        \* RwLock<HashMap<(String, u16), RegisterMapping>>
    alarms,           \* RwLock<HashMap<String, AlarmTracking>>: the one alarm
    event_id,         \* AtomicU64 event id counter
    e_pc,             \* position of each task inside process_raw
    e_ts,             \* `server_timestamp` of the task's call
    e_args,           \* start address and words of the task's call
    e_out,            \* the StreamEvents the task's call sent on event_tx
    e_eval,           \* what evaluate_alarms did in the task's call
    e_calls,          \* process_raw calls so far
    g_last_event,     \* per register: the value of the event sent last
    g_transition_times, \* the timestamps of the alarm events sent so far
    g_alarm_states,   \* the states the alarm events sent so far carry, in order
    \* StreamSight bridge
    b_config,         \* BridgeConfig
    metrics,          \* BridgeMetrics
    lex_sequence,     \* StreamSightBridge.sequence
    buffer,           \* the buffered LexEvents
    output,           \* the LexEvents handed to the output channel, in order
    output_rx_open,   \* whether the receiver of the output channel exists
    output_capacity,  \* the capacity of the output channel
    output_taken,     \* how many records the receiver has taken from output
    b_pc,             \* per task: where it is in process or flush
    b_event,          \* per task: the event of its process call
    b_lex,            \* per task: the LexEvent it built
    b_auto,           \* per task: its flush was called by process
    b_events,         \* per task: the records its flush took
    b_before,         \* per task: the length of output when its flush sent
    b_calls,          \* process and flush calls made so far
    \* Error classification, configuration limits, reconnection delay
    err,              \* the IndustrialError a caller holds
    err_out,          \* what is_recoverable returned for it
    err_code,         \* what error_code returned for it
    gw_config,        \* the configuration given to the builder and the gateway
    gw_built,         \* what GatewayConfigBuilder::build returned
    gw_new,           \* what GatewayLite::new returned
    rd_args,          \* reconnect_delay and attempts of a failed reconnection
    rd_out,           \* the delay reconnect() sleeps for
    \* ---- the locks of the StreamEmitter (emitter/mod.rs) ----
    lock_registers,   \* RwLock of registers: writer, readers, waiting requests
    lock_by_name,     \* RwLock of registers_by_name
    lock_alarms,      \* RwLock of alarms
    k_pc,             \* per task: position inside its emitter call
    k_emits           \* per task in process_raw: whether a word of the call
                      \* passes change detection

modbusVars == <<transaction_id, inflight, m_pc, m_req, m_tid, m_frame,
                m_resp, m_result, m_events, m_failures>>

tcpVars == <<max_reconnect_attempts, state, stream, stream_lock, reconnect_count,
             wire, t_pc, t_op, t_attempts, t_lasterr, t_result, t_got, t_faults,
             t_quiet, has_events, state_events, t_ev>>

schedVars == <<config, items, status, schedule, sequence, running,
               trigger_rx_open, returned_rx, triggers, clock, r_pc, min_interval_ns,
               last_poll_ns, r_now, r_entry, r_item, r_actual, r_wake,
               h_pc, h_item, h_now, h_adds, g_epoch, g_dispatch, g_failures,
               g_stop_called, g_removed, g_complete>>

emitVars == <<e_setup, registers, alarms, event_id, e_pc, e_ts, e_args, e_out,
              e_eval, e_calls, g_last_event, g_transition_times,
              g_alarm_states>>

\* What the actions of one subsystem leave alone.
bridgeVars == <<b_config, metrics, lex_sequence, buffer, output, output_rx_open,
                output_capacity, output_taken,
                b_pc, b_event, b_lex, b_auto, b_events, b_before, b_calls>>

callVars == <<err, err_out, err_code, gw_config, gw_built, gw_new, rd_args, rd_out>>

lockVars == <<lock_registers, lock_by_name, lock_alarms, k_pc, k_emits>>

nonModbusVars == <<tcpVars, schedVars, emitVars, bridgeVars, callVars, lockVars>>
nonTcpVars == <<modbusVars, schedVars, emitVars, bridgeVars, callVars, lockVars>>
nonSchedVars == <<modbusVars, tcpVars, emitVars, bridgeVars, callVars, lockVars>>
nonEmitVars == <<modbusVars, tcpVars, schedVars, bridgeVars, callVars, lockVars>>
nonBridgeVars == <<modbusVars, tcpVars, schedVars, emitVars, callVars, lockVars>>
nonCallVars == <<modbusVars, tcpVars, schedVars, emitVars, bridgeVars, lockVars>>
nonLockVars == <<modbusVars, tcpVars, schedVars, emitVars, bridgeVars, callVars>>

(***************************************************************************)
(* Protocol engine: protocol/modbus.rs                                     *)
(***************************************************************************)
UnitId == 1

RegisterTypes == {"Holding", "Input"}

\* RegisterType::read_function_code
read_function_code(rt) ==
    CASE rt = "Holding"  -> 3
      [] rt = "Input"    -> 4
      [] rt = "Coil"     -> 1
      [] rt = "Discrete" -> 2

\* AtomicU16::fetch_add(1): the new counter value, wrapping at the width.
FetchAdd(v) == (v + 1) % TxIdModulus

HiByte(w) == (w \div 256) % 256
LoByte(w) == w % 256
Word(hi, lo) == hi * 256 + lo

\* ModbusTcpClient::build_mbap
build_mbap(tid, pdu_length) ==
    LET length == pdu_length + 1
    IN  <<HiByte(tid), LoByte(tid), 0, 0, HiByte(length), LoByte(length), UnitId>>

\* The PDU of a read request.
ReadPdu(req) ==
    <<read_function_code(req.register_type),
      HiByte(req.address), LoByte(req.address),
      HiByte(req.quantity), LoByte(req.quantity)>>

\* ModbusTcpClient::parse_mbap: an error, or (transaction id, unit id, pdu).
parse_mbap(data) ==
    IF Len(data) < 8
    THEN [ok |-> FALSE, err |-> [type |-> "InvalidResponse", reason |-> "short"]]
    ELSE LET protocol_id == Word(data[3], data[4])
         IN  IF protocol_id # 0
             THEN [ok |-> FALSE,
                   err |-> [type |-> "InvalidResponse", reason |-> "protocol"]]
             ELSE [ok |-> TRUE,
                   transaction_id |-> Word(data[1], data[2]),
                   unit_id |-> data[7],
                   pdu |-> SubSeq(data, 8, Len(data))]

\* The data words of a read response PDU (modbus.rs:288-295).  Indexing past
\* the end of the PDU aborts the task.
RECURSIVE ParseWords(_, _, _)
ParseWords(pdu, i, n) ==
    IF i >= n THEN <<>>
    ELSE <<Word(pdu[2 + i * 2 + 1], pdu[2 + i * 2 + 2])>> \o ParseWords(pdu, i + 1, n)

NoResult == [kind |-> "None"]
Panic == [kind |-> "Panic"]
ErrResult(e) == [kind |-> "Err", err |-> e]

\* What read() does with a response after send_receive returned Ok
\* (modbus.rs:251-316): the result and the events sent.
TxCheckMutantSkipped(tid, parsed) == TRUE
TxCheck(tid, parsed) == parsed.transaction_id = tid

ExceptionFunctionCodeMutant(b) == b
ExceptionFunctionCode(b) == b % 128

HandleResponse(req, tid, data) ==
    LET parsed == parse_mbap(data)
    IN  IF ~parsed.ok THEN [result |-> ErrResult(parsed.err), events |-> <<>>]
        ELSE IF ~TxCheck(tid, parsed)
        THEN [result |-> ErrResult([type |-> "TransactionMismatch",
                                    expected |-> tid,
                                    actual |-> parsed.transaction_id]),
              events |-> <<>>]
        ELSE LET pdu == parsed.pdu
             IN  IF (pdu[1] \div 128) % 2 = 1
                 THEN IF Len(pdu) < 2
                      THEN [result |-> Panic, events |-> <<>>]
                      ELSE [result |-> [kind |-> "Ok",
                                        request_id |-> req.request_id,
                                        transaction_id |-> tid,
                                        success |-> FALSE,
                                        values |-> <<>>,
                                        exception_code |-> <<pdu[2]>>],
                            events |-> <<[type |-> "Exception",
                                          transaction_id |-> tid,
                                          function_code |-> ExceptionFunctionCode(pdu[1]),
                                          exception_code |-> pdu[2]]>>]
                 ELSE IF Len(pdu) < 2 \/ Len(pdu) < 2 + 2 * (pdu[2] \div 2)
                      THEN [result |-> Panic, events |-> <<>>]
                      ELSE [result |-> [kind |-> "Ok",
                                        request_id |-> req.request_id,
                                        transaction_id |-> tid,
                                        success |-> TRUE,
                                        values |-> ParseWords(pdu, 0, pdu[2] \div 2),
                                        exception_code |-> <<>>],
                            events |-> <<[type |-> "Response",
                                          transaction_id |-> tid,
                                          success |-> TRUE]>>]

\* ---- inputs ----
ReadRequests ==
    [request_id : {7}, register_type : RegisterTypes, address : {100}, quantity : {2}]

\* PDUs a device may answer with: an exception, register data, and PDUs
\* that are cut short.
ResponsePdus ==
    { <<131, 2>>, <<132, 6>>, <<3, 4, 0, 100, 0, 200>>, <<3, 2, 0, 100>>,
      <<131>>, <<3, 4, 0, 100>>, <<>> }

\* A transaction id other than tid.
OtherId(tid) == (tid + 1) % TxIdModulus

\* A response frame: header with transaction id t and protocol id p, then pdu.
ResponseFrame(t, p, pdu) ==
    <<HiByte(t), LoByte(t), 0, p, 0, Len(pdu) + 1, UnitId>> \o pdu

\* The byte strings the transport may return for a request with transaction
\* id tid: the id echoed with every PDU, another id, a non-zero protocol id.
Responses(tid) ==
    { ResponseFrame(tid, 0, pdu) : pdu \in ResponsePdus }
    \cup { ResponseFrame(OtherId(tid), 0, pdu) : pdu \in {<<131, 2>>, <<3, 2, 0, 100>>} }
    \cup { ResponseFrame(t, 1, <<3, 2, 0, 100>>) : t \in {tid, OtherId(tid)} }

\* The responses of a device that answers every read with one data word,
\* under the request's transaction id or under another one.
PlainResponses(tid) ==
    { ResponseFrame(t, 0, <<3, 2, 0, 100>>) : t \in {tid, OtherId(tid)} }

TransportErrors ==
    { [type |-> "NotConnected"], [type |-> "ResponseTimeout"],
      [type |-> "ConnectionReset"] }

MapPut(f, k, v) == [x \in DOMAIN f \cup {k} |-> IF x = k THEN v ELSE f[x]]
MapRemove(f, k) == [x \in DOMAIN f \ {k} |-> f[x]]
EmptyMap == [x \in {} |-> 0]

ModbusInit ==
    /\ transaction_id = 1
    /\ inflight = EmptyMap
    /\ m_pc = [t \in Readers |-> "idle"]
    /\ m_req = [t \in Readers |-> [request_id |-> 0]]
    /\ m_tid = [t \in Readers |-> 0]
    /\ m_frame = [t \in Readers |-> <<>>]
    /\ m_resp = [t \in Readers |-> <<>>]
    /\ m_result = [t \in Readers |-> NoResult]
    /\ m_events = [t \in Readers |-> <<>>]
    /\ m_failures = 0

\* read() is called: next_transaction_id's first fetch_add (modbus.rs:162).
ReadBegin(t, req) ==
    /\ m_pc[t] \in {"idle", "done"}
    /\ m_req' = [m_req EXCEPT ![t] = req]
    /\ transaction_id' = FetchAdd(transaction_id)
    /\ m_tid' = [m_tid EXCEPT ![t] = transaction_id]
    /\ m_pc' = [m_pc EXCEPT ![t] = IF transaction_id = 0 THEN "alloc_retry" ELSE "track"]
    /\ m_frame' = [m_frame EXCEPT ![t] = <<>>]
    /\ m_resp' = [m_resp EXCEPT ![t] = <<>>]
    /\ m_result' = [m_result EXCEPT ![t] = NoResult]
    /\ m_events' = [m_events EXCEPT ![t] = <<>>]
    /\ UNCHANGED <<inflight, m_failures>>
    /\ UNCHANGED nonModbusVars

\* next_transaction_id's second fetch_add, after the first returned 0
\* (modbus.rs:163-164).
AllocRetry(t) ==
    /\ m_pc[t] = "alloc_retry"
    /\ transaction_id' = FetchAdd(transaction_id)
    /\ m_tid' = [m_tid EXCEPT ![t] = transaction_id]
    /\ m_pc' = [m_pc EXCEPT ![t] = "track"]
    /\ UNCHANGED <<inflight, m_req, m_frame, m_resp, m_result, m_events, m_failures>>
    /\ UNCHANGED nonModbusVars

\* The frame is built, the id entered in the in-flight table and the
\* Request event sent (modbus.rs:212-241).
Track(t) ==
    /\ m_pc[t] = "track"
    /\ m_frame' = [m_frame EXCEPT ![t] =
                      build_mbap(m_tid[t], Len(ReadPdu(m_req[t]))) \o ReadPdu(m_req[t])]
    /\ inflight' = MapPut(inflight, m_tid[t], m_req[t].request_id)
    /\ m_events' = [m_events EXCEPT ![t] =
                      <<[type |-> "Request",
                         transaction_id |-> m_tid[t],
                         function_code |-> read_function_code(m_req[t].register_type),
                         address |-> m_req[t].address,
                         quantity |-> m_req[t].quantity]>>]
    /\ m_pc' = [m_pc EXCEPT ![t] = "await"]
    /\ UNCHANGED <<transaction_id, m_req, m_tid, m_resp, m_result, m_failures>>
    /\ UNCHANGED nonModbusVars

\* send_receive fails: read() returns the error through `?` (modbus.rs:244).
SendReceiveFails(t, e) ==
    /\ m_pc[t] = "await"
    /\ m_failures < MaxTransportFailures
    /\ m_failures' = m_failures + 1
    /\ m_result' = [m_result EXCEPT ![t] = ErrResult(e)]
    /\ m_pc' = [m_pc EXCEPT ![t] = "done"]
    /\ UNCHANGED <<transaction_id, inflight, m_req, m_tid, m_frame, m_resp, m_events>>
    /\ UNCHANGED nonModbusVars

\* send_receive returns bytes: the id leaves the in-flight table and the
\* response is parsed (modbus.rs:244-316).
SendReceiveReturns(t, data) ==
    /\ m_pc[t] = "await"
    /\ inflight' = MapRemove(inflight, m_tid[t])
    /\ m_resp' = [m_resp EXCEPT ![t] = data]
    /\ LET h == HandleResponse(m_req[t], m_tid[t], data)
       IN  /\ m_result' = [m_result EXCEPT ![t] = h.result]
           /\ m_events' = [m_events EXCEPT ![t] = m_events[t] \o h.events]
    /\ m_pc' = [m_pc EXCEPT ![t] = "done"]
    /\ UNCHANGED <<transaction_id, m_req, m_tid, m_frame, m_failures>>
    /\ UNCHANGED nonModbusVars

(***************************************************************************)
(* Transport: transport/tcp.rs                                             *)
(***************************************************************************)
TcpTasks == 1 .. NumTcpTasks

ConnectErrors == {"ConnectionTimeout", "ConnectionFailed"}

\* TcpConfig::default().max_reconnect_attempts
DefaultMaxReconnectAttempts == 10

Ok == [kind |-> "Ok"]
NoErr == "none"
NoStateChange == [old_state |-> "none", new_state |-> "none"]

\* TcpClient::new (events FALSE) or TcpClient::with_events (events TRUE).
TcpInitEvents(n, events) ==
    /\ max_reconnect_attempts = n
    /\ has_events = events
    /\ state_events = <<>>
    /\ t_ev = [t \in TcpTasks |-> NoStateChange]
    /\ state = "Disconnected"
    /\ stream = FALSE
    /\ stream_lock = 0
    /\ reconnect_count = 0
    /\ wire = <<>>
    /\ t_pc = [t \in TcpTasks |-> "idle"]
    /\ t_op = [t \in TcpTasks |-> "none"]
    /\ t_attempts = [t \in TcpTasks |-> 0]
    /\ t_lasterr = [t \in TcpTasks |-> NoErr]
    /\ t_result = [t \in TcpTasks |-> NoResult]
    /\ t_got = [t \in TcpTasks |-> 0]
    /\ t_faults = 0
    /\ t_quiet = FALSE

TcpInitWith(n) == TcpInitEvents(n, FALSE)

\* set_state has sent the event of the task's last change, if any.
Sent(t) == t_ev[t] = NoStateChange

\* set_state: the state is swapped under its write lock (tcp.rs:120-125); the
\* StateChange event of an actual change is sent afterwards, when the client
\* has an event channel (tcp.rs:127-136).
set_state(t, new_state) ==
    /\ state' = new_state
    /\ t_ev' = [t_ev EXCEPT ![t] =
                   IF has_events /\ state # new_state
                     THEN [old_state |-> state, new_state |-> new_state]
                     ELSE NoStateChange]

\* A task is free to make a call.
Free(t) == t_pc[t] \in {"idle", "done"} /\ Sent(t)

\* A call begins: the locals of the task's previous call are gone.  r is the
\* result when the call returns in this very step.
Call(t, op, pc, r) ==
    /\ Free(t)
    /\ t_op' = [t_op EXCEPT ![t] = op]
    /\ t_pc' = [t_pc EXCEPT ![t] = pc]
    /\ t_attempts' = [t_attempts EXCEPT ![t] = 0]
    /\ t_lasterr' = [t_lasterr EXCEPT ![t] = NoErr]
    /\ t_result' = [t_result EXCEPT ![t] = r]
    /\ t_got' = [t_got EXCEPT ![t] = 0]

Return(t, r) ==
    /\ t_pc' = [t_pc EXCEPT ![t] = "done"]
    /\ t_result' = [t_result EXCEPT ![t] = r]

\* connect(): set_state(Connecting), then try_connect (tcp.rs:325-328).
ConnectBegin(t) ==
    /\ Call(t, "connect", "try", NoResult)
    /\ set_state(t, "Connecting")
    /\ t_quiet' = FALSE
    /\ UNCHANGED <<has_events, max_reconnect_attempts, stream, stream_lock,
                   reconnect_count, wire, t_faults, state_events>>
    /\ UNCHANGED nonTcpVars

\* try_connect: TcpStream::connect succeeded within the timeout
\* (tcp.rs:191-205); the stream is still to be stored.
TryConnectConnected(t) ==
    /\ t_pc[t] = "try"
    /\ Sent(t)
    /\ t_pc' = [t_pc EXCEPT ![t] = "store"]
    /\ UNCHANGED <<has_events, max_reconnect_attempts, state, stream,
                   stream_lock, reconnect_count, wire, t_op, t_attempts,
                   t_lasterr, t_result, t_got, t_faults, t_quiet,
                   state_events, t_ev>>
    /\ UNCHANGED nonTcpVars

\* try_connect: *self.stream.lock().await = Some(stream) (tcp.rs:207).  The
\* session it replaces, if any, is dropped.
TryConnectStore(t) ==
    /\ t_pc[t] = "store"
    /\ Sent(t)
    /\ stream_lock = 0
    /\ stream' = TRUE
    /\ wire' = <<>>
    /\ t_pc' = [t_pc EXCEPT ![t] = "setconn"]
    /\ UNCHANGED <<has_events, max_reconnect_attempts, state, stream_lock,
                   reconnect_count, t_op, t_attempts, t_lasterr, t_result,
                   t_got, t_faults, t_quiet, state_events, t_ev>>
    /\ UNCHANGED nonTcpVars

\* try_connect: set_state(Connected) and return Ok (tcp.rs:208-211); in
\* reconnect() the count is reset (tcp.rs:167-169); connect() returns Ok.
TryConnectDone(t) ==
    /\ t_pc[t] = "setconn"
    /\ Sent(t)
    /\ set_state(t, "Connected")
    /\ reconnect_count' = IF t_attempts[t] > 0 THEN 0 ELSE reconnect_count
    /\ Return(t, Ok)
    /\ UNCHANGED <<has_events, max_reconnect_attempts, stream, stream_lock,
                   wire, t_op, t_attempts, t_lasterr, t_got, t_faults,
                   t_quiet, state_events>>
    /\ UNCHANGED nonTcpVars

\* connect(): the initial try_connect failed; the error is reported and
\* reconnect() is entered (tcp.rs:330-333).
ConnectFails(t, e) ==
    /\ t_pc[t] = "try"
    /\ Sent(t)
    /\ t_attempts[t] = 0
    /\ t_lasterr' = [t_lasterr EXCEPT ![t] = e]
    /\ t_pc' = [t_pc EXCEPT ![t] = "r_begin"]
    /\ UNCHANGED <<has_events, max_reconnect_attempts, state, stream,
                   stream_lock, reconnect_count, wire, t_op, t_attempts,
                   t_result, t_got, t_faults, t_quiet, state_events, t_ev>>
    /\ UNCHANGED nonTcpVars

\* reconnect(): set_state(Reconnecting) (tcp.rs:152-155).
ReconnectBegin(t) ==
    /\ t_pc[t] = "r_begin"
    /\ Sent(t)
    /\ set_state(t, "Reconnecting")
    /\ t_pc' = [t_pc EXCEPT ![t] = "r_loop"]
    /\ UNCHANGED <<has_events, max_reconnect_attempts, stream, stream_lock,
                   reconnect_count, wire, t_op, t_attempts, t_lasterr,
                   t_result, t_got, t_faults, t_quiet, state_events>>
    /\ UNCHANGED nonTcpVars

\* reconnect(): top of the loop, attempts += 1 and reconnect_count written
\* (tcp.rs:157-166).
ReconnectAttempt(t) ==
    /\ t_pc[t] = "r_loop"
    /\ Sent(t)
    /\ t_attempts' = [t_attempts EXCEPT ![t] = t_attempts[t] + 1]
    /\ reconnect_count' = t_attempts[t] + 1
    /\ t_pc' = [t_pc EXCEPT ![t] = "try"]
    /\ UNCHANGED <<has_events, max_reconnect_attempts, state, stream,
                   stream_lock, wire, t_op, t_lasterr, t_result, t_got,
                   t_faults, t_quiet, state_events, t_ev>>
    /\ UNCHANGED nonTcpVars

\* reconnect(): whether the failed attempt was the last one (tcp.rs:174).
AttemptsExhaustedMutantOffByOne(max_attempts, attempts) ==
    max_attempts > 0 /\ attempts > max_attempts
AttemptsExhausted(max_attempts, attempts) ==
    max_attempts > 0 /\ attempts >= max_attempts

\* reconnect(): try_connect failed (tcp.rs:171-184): Error and return the
\* error when the attempts are used up, else sleep and loop.
ReconnectFails(t, e) ==
    /\ t_pc[t] = "try"
    /\ Sent(t)
    /\ t_attempts[t] > 0
    /\ t_lasterr' = [t_lasterr EXCEPT ![t] = e]
    /\ IF AttemptsExhausted(max_reconnect_attempts, t_attempts[t])
       THEN /\ set_state(t, "Error")
            /\ Return(t, ErrResult([type |-> e]))
       ELSE /\ t_attempts[t] < MaxAttempts
            /\ t_pc' = [t_pc EXCEPT ![t] = "r_loop"]
            /\ UNCHANGED <<state, t_result, t_ev>>
    /\ UNCHANGED <<has_events, max_reconnect_attempts, stream, stream_lock,
                   reconnect_count, wire, t_op, t_attempts, t_got, t_faults,
                   t_quiet, state_events>>
    /\ UNCHANGED nonTcpVars

\* disconnect(): the stream mutex is taken and the session dropped
\* (tcp.rs:339-342); the guard lives to the end of the function.
DisconnectTake(t) ==
    /\ Call(t, "disconnect", "d_set", NoResult)
    /\ stream_lock = 0
    /\ stream_lock' = t
    /\ stream' = FALSE
    /\ wire' = <<>>
    /\ UNCHANGED <<has_events, max_reconnect_attempts, state,
                   reconnect_count, t_faults, t_quiet, state_events, t_ev>>
    /\ UNCHANGED nonTcpVars

\* disconnect(): set_state(Disconnected), return Ok (tcp.rs:343-345).
DisconnectDone(t) ==
    /\ t_pc[t] = "d_set"
    /\ Sent(t)
    /\ set_state(t, "Disconnected")
    /\ stream_lock' = IF has_events /\ state # "Disconnected" THEN t ELSE 0
    /\ t_quiet' = TRUE
    /\ Return(t, Ok)
    /\ UNCHANGED <<has_events, max_reconnect_attempts, stream,
                   reconnect_count, wire, t_op, t_attempts, t_lasterr, t_got,
                   t_faults, state_events>>
    /\ UNCHANGED nonTcpVars

\* send_receive: the send block (tcp.rs:219-231).  The mutex is taken for the
\* write and released at the end of the block.
SendNotConnected(t) ==
    /\ Call(t, "send_receive", "done", ErrResult([type |-> "NotConnected"]))
    /\ stream_lock = 0
    /\ ~stream
    /\ UNCHANGED <<has_events, max_reconnect_attempts, state, stream,
                   stream_lock, reconnect_count, wire, t_faults, t_quiet,
                   state_events, t_ev>>
    /\ UNCHANGED nonTcpVars

SendWrites(t) ==
    /\ Call(t, "send_receive", "sr_recv", NoResult)
    /\ stream_lock = 0
    /\ stream
    /\ Len(wire) < MaxPending
    /\ wire' = Append(wire, t)
    /\ UNCHANGED <<has_events, max_reconnect_attempts, state, stream,
                   stream_lock, reconnect_count, t_faults, t_quiet,
                   state_events, t_ev>>
    /\ UNCHANGED nonTcpVars

SendFails(t, e) ==
    /\ Call(t, "send_receive", "done", ErrResult([type |-> e]))
    /\ stream_lock = 0
    /\ stream
    /\ t_faults < MaxTcpFaults
    /\ t_faults' = t_faults + 1
    /\ UNCHANGED <<has_events, max_reconnect_attempts, state, stream,
                   stream_lock, reconnect_count, wire, t_quiet, state_events,
                   t_ev>>
    /\ UNCHANGED nonTcpVars

\* send_receive: the receive block (tcp.rs:250-263), under a second
\* acquisition of the mutex.  read() returns the bytes the peer sent next:
\* the answer to the oldest frame not answered yet.
ReceiveNotConnected(t) ==
    /\ t_pc[t] = "sr_recv"
    /\ Sent(t)
    /\ stream_lock = 0
    /\ ~stream
    /\ Return(t, ErrResult([type |-> "NotConnected"]))
    /\ UNCHANGED <<has_events, max_reconnect_attempts, state, stream,
                   stream_lock, reconnect_count, wire, t_op, t_attempts,
                   t_lasterr, t_got, t_faults, t_quiet, state_events, t_ev>>
    /\ UNCHANGED nonTcpVars

ReceiveReads(t) ==
    /\ t_pc[t] = "sr_recv"
    /\ Sent(t)
    /\ stream_lock = 0
    /\ stream
    /\ wire # <<>>
    /\ t_got' = [t_got EXCEPT ![t] = Head(wire)]
    /\ wire' = Tail(wire)
    /\ Return(t, Ok)
    /\ UNCHANGED <<has_events, max_reconnect_attempts, state, stream,
                   stream_lock, reconnect_count, t_op, t_attempts, t_lasterr,
                   t_faults, t_quiet, state_events, t_ev>>
    /\ UNCHANGED nonTcpVars

ReceiveFails(t, e) ==
    /\ t_pc[t] = "sr_recv"
    /\ Sent(t)
    /\ stream_lock = 0
    /\ stream
    /\ t_faults < MaxTcpFaults
    /\ t_faults' = t_faults + 1
    /\ Return(t, ErrResult([type |-> e]))
    /\ UNCHANGED <<has_events, max_reconnect_attempts, state, stream,
                   stream_lock, reconnect_count, wire, t_op, t_attempts,
                   t_lasterr, t_got, t_quiet, state_events, t_ev>>
    /\ UNCHANGED nonTcpVars

\* set_state: tx.send(TcpEvent::StateChange { old_state, new_state, .. })
\* (tcp.rs:129-135).  disconnect() holds the stream mutex until its set_state
\* has returned.
SetStateSend(t) ==
    /\ ~Sent(t)
    /\ state_events' = Append(state_events, t_ev[t])
    /\ t_ev' = [t_ev EXCEPT ![t] = NoStateChange]
    /\ stream_lock' = IF stream_lock = t THEN 0 ELSE stream_lock
    /\ UNCHANGED <<has_events, max_reconnect_attempts, state, stream,
                   reconnect_count, wire, t_pc, t_op, t_attempts, t_lasterr,
                   t_result, t_got, t_faults, t_quiet>>
    /\ UNCHANGED nonTcpVars

SendReceiveErrors == {"ResponseTimeout", "ConnectionReset"}

\* Tasks that call connect() and disconnect() on one client.
TcpConnectNext ==
    \E t \in TcpTasks :
        \/ ConnectBegin(t)
        \/ TryConnectConnected(t)
        \/ TryConnectStore(t)
        \/ TryConnectDone(t)
        \/ \E e \in ConnectErrors : ConnectFails(t, e)
        \/ ReconnectBegin(t)
        \/ ReconnectAttempt(t)
        \/ \E e \in ConnectErrors : ReconnectFails(t, e)
        \/ DisconnectTake(t)
        \/ DisconnectDone(t)

\* Tasks that call connect() and disconnect() on one client that has an
\* event channel.
EventfulConnect(t) == Len(state_events) < MaxStateEvents /\ ConnectBegin(t)

EventfulDisconnect(t) == Len(state_events) < MaxStateEvents /\ DisconnectTake(t)

TcpEventsNext ==
    \E t \in TcpTasks :
        \/ EventfulConnect(t)
        \/ TryConnectConnected(t)
        \/ TryConnectStore(t)
        \/ TryConnectDone(t)
        \/ \E e \in ConnectErrors : ConnectFails(t, e)
        \/ ReconnectBegin(t)
        \/ ReconnectAttempt(t)
        \/ \E e \in ConnectErrors : ReconnectFails(t, e)
        \/ EventfulDisconnect(t)
        \/ DisconnectDone(t)
        \/ SetStateSend(t)

\* Tasks that call connect(), disconnect() and send_receive() on one client.
TcpNext ==
    \E t \in TcpTasks :
        \/ ConnectBegin(t)
        \/ TryConnectConnected(t)
        \/ TryConnectStore(t)
        \/ TryConnectDone(t)
        \/ \E e \in ConnectErrors : ConnectFails(t, e)
        \/ ReconnectBegin(t)
        \/ ReconnectAttempt(t)
        \/ \E e \in ConnectErrors : ReconnectFails(t, e)
        \/ DisconnectTake(t)
        \/ DisconnectDone(t)
        \/ SendNotConnected(t)
        \/ SendWrites(t)
        \/ \E e \in SendReceiveErrors : SendFails(t, e)
        \/ ReceiveNotConnected(t)
        \/ ReceiveReads(t)
        \/ \E e \in SendReceiveErrors : ReceiveFails(t, e)

\* One reader's read() against a device that may answer anything.
ModbusNext ==
    \E t \in {1} :
        \/ \E req \in ReadRequests : ReadBegin(t, req)
        \/ AllocRetry(t)
        \/ Track(t)
        \/ \E e \in TransportErrors : SendReceiveFails(t, e)
        \/ \E data \in Responses(m_tid[t]) : SendReceiveReturns(t, data)

\* Concurrent readers on one client.
ModbusConcNext ==
    \E t \in Readers :
        \/ \E req \in ReadRequests : req.register_type = "Holding" /\ ReadBegin(t, req)
        \/ AllocRetry(t)
        \/ Track(t)
        \/ SendReceiveFails(t, [type |-> "ResponseTimeout"])
        \/ \E data \in PlainResponses(m_tid[t]) : SendReceiveReturns(t, data)

(***************************************************************************)
(* Poll scheduler: scheduler/mod.rs                                        *)
(***************************************************************************)
\* backoff_factor of the default configuration, 1.5, as a fraction.
BackoffNum == 3
BackoffDen == 2

\* The clock value at which the scheduler is created.  The code's clock is
\* the wall clock in nanoseconds since the Unix epoch, far above one second.
StartTime == NsPerSecond
MaxTime == StartTime + Horizon

Min(a, b) == IF a < b THEN a ELSE b

SchedulerConfigs ==
    [max_polls_per_second : Rates,
     adaptive_enabled : BOOLEAN,
     max_backoff_interval_ms : {MaxBackoffMs}]

DefaultSchedulerConfig ==
    [max_polls_per_second |-> MaxRate,
     adaptive_enabled |-> TRUE,
     max_backoff_interval_ms |-> MaxBackoffMs]

\* The PollItem built from a RegisterConfig.  The fields that are only
\* copied into the trigger (device id, name, register type, address, count)
\* are left out.
PollItem(id, base, prio) ==
    [poll_id |-> id,
     base_interval_ms |-> base,
     current_interval_ms |-> base,
     priority |-> prio,
     enabled |-> TRUE]

NoItem == [poll_id |-> 0, base_interval_ms |-> 0, current_interval_ms |-> 0,
           priority |-> 0, enabled |-> FALSE]

ScheduleEntry(time, prio, id) ==
    [next_time_ns |-> time, priority |-> prio, poll_id |-> id]

NoEntry == ScheduleEntry(0, 0, 0)

PollStatus(interval_ms, now) ==
    [current_interval_ms |-> interval_ms,
     last_poll_ns |-> 0,
     next_poll_ns |-> now,
     polls_total |-> 0,
     polls_success |-> 0,
     polls_failed |-> 0,
     avg_latency_us |-> 0,
     consecutive_failures |-> 0]

\* PollComplete { poll_id, sequence_number, .. } of the last poll_complete
\* call, and the number of calls so far.
NoComplete == [calls |-> 0, poll_id |-> 0, sequence_number |-> 0]

\* Sequence numbers and latencies (microseconds) reported to poll_complete.
SequenceNumbers == {0, 1}
Latencies == {0, 8}

\* Ord for ScheduleEntry: e is greater than f when it is earlier, or as early
\* and of higher priority.  The poll id takes no part in the comparison.
Greater(e, f) ==
    \/ e.next_time_ns < f.next_time_ns
    \/ e.next_time_ns = f.next_time_ns /\ e.priority > f.priority

\* The entries BinaryHeap::peek may return: which of several entries that
\* compare equal is at the top depends on the history of the heap.
Greatest(heap) ==
    {e \in BagToSet(heap) : \A f \in BagToSet(heap) : ~Greater(f, e)}

Push(heap, e) == heap (+) SetToBag({e})
Pop(heap, e) == heap (-) SetToBag({e})

timestamp_ns == clock

\* PollScheduler::new makes the trigger channel, keeps both of its ends in
\* the scheduler and returns the receiver of a second channel, whose sender
\* it drops.
TriggerChannel == "trigger"
DummyChannel == "dummy"

\* What the holder of the returned receiver can receive.
Receivable == IF returned_rx = TriggerChannel THEN triggers ELSE <<>>

SchedInitWith(c) ==
    /\ config = c
    /\ items = EmptyMap
    /\ status = EmptyMap
    /\ schedule = EmptyBag
    /\ sequence = 1
    /\ running = FALSE
    /\ trigger_rx_open = TRUE
    /\ returned_rx = DummyChannel
    /\ triggers = <<>>
    /\ clock = StartTime
    /\ r_pc = "init"
    /\ min_interval_ns = 0
    /\ last_poll_ns = 0
    /\ r_now = 0
    /\ r_entry = NoEntry
    /\ r_item = NoItem
    /\ r_actual = 0
    /\ r_wake = 0
    /\ h_pc = "idle"
    /\ h_item = NoItem
    /\ h_now = 0
    /\ h_adds = 0
    /\ g_epoch = [id \in PollIds |-> 0]
    /\ g_dispatch = <<>>
    /\ g_failures = [id \in PollIds |-> 0]
    /\ g_stop_called = FALSE
    /\ g_removed = [id \in PollIds |-> FALSE]
    /\ g_complete = NoComplete

\* ---- add_poll ----
\* self.items.write().await.insert(poll_id, item)
AddPollItems(id, base, prio) ==
    /\ h_pc = "idle"
    /\ h_adds < MaxAdds
    /\ h_adds' = h_adds + 1
    /\ items' = MapPut(items, id, PollItem(id, base, prio))
    /\ h_item' = PollItem(id, base, prio)
    /\ h_pc' = "add_status"
    /\ g_epoch' = [g_epoch EXCEPT ![id] = @ + 1]
    /\ g_removed' = [g_removed EXCEPT ![id] = FALSE]
    /\ UNCHANGED <<returned_rx, config, status, schedule, sequence, running,
                   trigger_rx_open, triggers, clock, r_pc, min_interval_ns,
                   last_poll_ns, r_now, r_entry, r_item, r_actual, r_wake,
                   h_now, g_dispatch, g_failures,
                   g_stop_called, g_complete>>
    /\ UNCHANGED nonSchedVars
\* let now = timestamp_ns(); self.status.write().await.insert(...)
AddPollStatus ==
    /\ h_pc = "add_status"
    /\ h_now' = timestamp_ns
    /\ status' = MapPut(status, h_item.poll_id,
                        PollStatus(h_item.current_interval_ms, timestamp_ns))
    /\ g_failures' = [g_failures EXCEPT ![h_item.poll_id] = 0]
    /\ h_pc' = "add_push"
    /\ UNCHANGED <<returned_rx, config, items, schedule, sequence, running,
                   trigger_rx_open, triggers, clock, r_pc, min_interval_ns,
                   last_poll_ns, r_now, r_entry, r_item, r_actual, r_wake,
                   h_item, h_adds, g_epoch, g_dispatch,
                   g_stop_called, g_removed, g_complete>>
    /\ UNCHANGED nonSchedVars
\* self.schedule.lock().await.push(...)
AddPollPush ==
    /\ h_pc = "add_push"
    /\ schedule' = Push(schedule,
                        ScheduleEntry(h_now, h_item.priority, h_item.poll_id))
    /\ g_epoch' = [g_epoch EXCEPT ![h_item.poll_id] = @ + 1]
    /\ h_pc' = "idle"
    /\ h_item' = NoItem
    /\ h_now' = 0
    /\ UNCHANGED <<returned_rx, config, items, status, sequence, running, trigger_rx_open,
                   triggers, clock, r_pc, min_interval_ns, last_poll_ns,
                   r_now, r_entry, r_item, r_actual, r_wake, h_adds,
                   g_dispatch, g_failures,
                   g_stop_called, g_removed, g_complete>>
    /\ UNCHANGED nonSchedVars
\* ---- remove_poll ----
RemovePollItems(id) ==
    /\ h_pc = "idle"
    /\ id \in DOMAIN items \/ id \in DOMAIN status
    /\ items' = MapRemove(items, id)
    /\ h_item' = [NoItem EXCEPT !.poll_id = id]
    /\ h_pc' = "remove_status"
    /\ UNCHANGED <<returned_rx, config, status, schedule, sequence, running,
                   trigger_rx_open, triggers, clock, r_pc, min_interval_ns,
                   last_poll_ns, r_now, r_entry, r_item, r_actual, r_wake,
                   h_now, h_adds, g_epoch, g_dispatch, g_failures,
                   g_stop_called, g_removed, g_complete>>
    /\ UNCHANGED nonSchedVars
\* The entry of the poll stays in the heap.
RemovePollStatus ==
    /\ h_pc = "remove_status"
    /\ status' = MapRemove(status, h_item.poll_id)
    /\ g_removed' = [g_removed EXCEPT ![h_item.poll_id] = TRUE]
    /\ h_pc' = "idle"
    /\ h_item' = NoItem
    /\ UNCHANGED <<returned_rx, config, items, schedule, sequence, running,
                   trigger_rx_open, triggers, clock, r_pc, min_interval_ns,
                   last_poll_ns, r_now, r_entry, r_item, r_actual, r_wake,
                   h_now, h_adds, g_epoch, g_dispatch, g_failures,
                   g_stop_called, g_complete>>
    /\ UNCHANGED nonSchedVars
\* ---- set_enabled ----  (a call that changes nothing is not a step)
SetEnabled(id, enabled) ==
    /\ h_pc = "idle"
    /\ id \in DOMAIN items
    /\ items[id].enabled # enabled
    /\ items' = [items EXCEPT ![id].enabled = enabled]
    /\ UNCHANGED <<returned_rx, config, status, schedule, sequence, running,
                   trigger_rx_open, triggers, clock, r_pc, min_interval_ns,
                   last_poll_ns, r_now, r_entry, r_item, r_actual, r_wake,
                   h_pc, h_item, h_now, h_adds, g_epoch, g_dispatch,
                   g_failures,
                   g_stop_called, g_removed, g_complete>>
    /\ UNCHANGED nonSchedVars
\* ---- poll_complete ----
\* (item.current_interval_ms as f32 * backoff_factor) as u32, then
\* .min(max_backoff_interval_ms): the cast truncates the product.
BackoffMutantRoundsUp(interval_ms) ==
    Min((interval_ms * BackoffNum + BackoffDen - 1) \div BackoffDen,
        config.max_backoff_interval_ms)

Backoff(interval_ms) ==
    Min((interval_ms * BackoffNum) \div BackoffDen,
        config.max_backoff_interval_ms)

\* poll_complete holds the write locks of status and items for the whole
\* call.  The status entry after the body of `if let Some(s)`: interval_ms
\* is the interval the adaptive branch stores, or the entry's own.
CompletedStatusMutantReschedules(s, success, latency_us, interval_ms) ==
    [s EXCEPT
        !.polls_total = @ + 1,
        !.polls_success = IF success THEN @ + 1 ELSE @,
        !.polls_failed = IF success THEN @ ELSE @ + 1,
        !.consecutive_failures = IF success THEN 0 ELSE @ + 1,
        !.current_interval_ms = interval_ms,
        !.next_poll_ns = @ + interval_ms * NsPerMs,
        !.avg_latency_us = (@ * 7 + latency_us) \div 8]

CompletedStatus(s, success, latency_us, interval_ms) ==
    [s EXCEPT
        !.polls_total = @ + 1,
        !.polls_success = IF success THEN @ + 1 ELSE @,
        !.polls_failed = IF success THEN @ ELSE @ + 1,
        !.consecutive_failures = IF success THEN 0 ELSE @ + 1,
        !.current_interval_ms = interval_ms,
        !.avg_latency_us = (@ * 7 + latency_us) \div 8]

\* complete.sequence_number is not read.
PollComplete(id, seq, success, latency_us) ==
    /\ h_pc = "idle"
    /\ g_complete.calls < MaxCompletes
    /\ id \in DOMAIN status =>
           success \/ status[id].consecutive_failures < MaxFailures
    /\ g_complete' = [calls |-> g_complete.calls + 1, poll_id |-> id,
                      sequence_number |-> seq]
    /\ IF id \in DOMAIN status
         THEN LET adapt == config.adaptive_enabled /\ id \in DOMAIN items
                  interval_ms ==
                      IF ~adapt THEN status[id].current_interval_ms
                      ELSE IF success THEN items[id].base_interval_ms
                      ELSE Backoff(items[id].current_interval_ms)
              IN /\ status' = [status EXCEPT ![id] =
                        CompletedStatus(@, success, latency_us, interval_ms)]
                 /\ items' = IF adapt
                               THEN [items EXCEPT
                                       ![id].current_interval_ms = interval_ms]
                               ELSE items
                 /\ g_failures' = [g_failures EXCEPT
                                     ![id] = IF success THEN 0 ELSE @ + 1]
         ELSE UNCHANGED <<status, items, g_failures>>
    /\ UNCHANGED <<returned_rx, config, schedule, sequence, running, trigger_rx_open,
                   triggers, clock, r_pc, min_interval_ns, last_poll_ns,
                   r_now, r_entry, r_item, r_actual, r_wake, h_pc, h_item,
                   h_now, h_adds, g_epoch, g_dispatch,
                   g_stop_called, g_removed>>
    /\ UNCHANGED nonSchedVars
\* ---- stop ----  (a store of the value already there is a step only the
\* first time it follows the call of run)
Stop ==
    /\ running \/ (r_pc # "init" /\ ~g_stop_called)
    /\ running' = FALSE
    /\ g_stop_called' = (g_stop_called \/ r_pc # "init")
    /\ UNCHANGED <<returned_rx, config, items, status, schedule, sequence,
                   trigger_rx_open, triggers, clock, r_pc, min_interval_ns,
                   last_poll_ns, r_now, r_entry, r_item, r_actual, r_wake,
                   h_pc, h_item, h_now, h_adds, g_epoch, g_dispatch,
                   g_failures,
                   g_removed, g_complete>>
    /\ UNCHANGED nonSchedVars
\* The owner of the trigger receiver drops it.
DropReceiver ==
    /\ trigger_rx_open
    /\ trigger_rx_open' = FALSE
    /\ UNCHANGED <<returned_rx, config, items, status, schedule, sequence, running,
                   triggers, clock, r_pc, min_interval_ns, last_poll_ns,
                   r_now, r_entry, r_item, r_actual, r_wake, h_pc, h_item,
                   h_now, h_adds, g_epoch, g_dispatch, g_failures,
                   g_stop_called, g_removed, g_complete>>
    /\ UNCHANGED nonSchedVars
\* ---- run ----
\* The host calls run(): the future exists (it is awaited or spawned as a
\* task) and has not been polled yet.
RunSpawn ==
    /\ r_pc = "init"
    /\ r_pc' = "spawned"
    /\ UNCHANGED <<returned_rx, config, items, status, schedule, sequence, running,
                   trigger_rx_open, triggers, clock, min_interval_ns,
                   last_poll_ns, r_now, r_entry, r_item, r_actual, r_wake,
                   h_pc, h_item, h_now, h_adds, g_epoch, g_dispatch,
                   g_failures, g_stop_called, g_removed, g_complete>>
    /\ UNCHANGED nonSchedVars
\* The first poll of run(): the flag is stored and the locals are set.
RunStart ==
    /\ r_pc = "spawned"
    /\ running' = TRUE
    /\ min_interval_ns' = NsPerSecond \div config.max_polls_per_second
    /\ last_poll_ns' = 0
    /\ r_pc' = "top"
    /\ UNCHANGED <<returned_rx, config, items, status, schedule, sequence,
                   trigger_rx_open, triggers, clock, r_now, r_entry, r_item,
                   r_actual, r_wake, h_pc, h_item, h_now, h_adds, g_epoch,
                   g_dispatch, g_failures,
                   g_stop_called, g_removed, g_complete>>
    /\ UNCHANGED nonSchedVars
\* while self.running.load(..) { let now = timestamp_ns();
LoopTop ==
    /\ r_pc = "top"
    /\ IF running
         THEN r_now' = timestamp_ns /\ r_pc' = "pop"
         ELSE r_now' = r_now /\ r_pc' = "done"
    /\ UNCHANGED <<returned_rx, config, items, status, schedule, sequence, running,
                   trigger_rx_open, triggers, clock, min_interval_ns,
                   last_poll_ns, r_entry, r_item, r_actual, r_wake, h_pc,
                   h_item, h_now, h_adds, g_epoch, g_dispatch, g_failures,
                   g_stop_called, g_removed, g_complete>>
    /\ UNCHANGED nonSchedVars
\* peek and pop under one lock of the schedule; with nothing due the loop
\* sleeps for 10 ms.
PopDue ==
    /\ r_pc = "pop"
    /\ IF \E e \in Greatest(schedule) : e.next_time_ns <= r_now
         THEN \E e \in Greatest(schedule) :
                /\ schedule' = Pop(schedule, e)
                /\ r_entry' = e
                /\ r_pc' = "lookup"
                /\ r_wake' = r_wake
         ELSE /\ r_pc' = "idle_sleep"
              /\ r_wake' = timestamp_ns + IdleSleepMs * NsPerMs
              /\ UNCHANGED <<schedule, r_entry>>
    /\ UNCHANGED <<returned_rx, config, items, status, sequence, running, trigger_rx_open,
                   triggers, clock, min_interval_ns, last_poll_ns, r_now,
                   r_item, r_actual, h_pc, h_item, h_now, h_adds, g_epoch,
                   g_dispatch, g_failures,
                   g_stop_called, g_removed, g_complete>>
    /\ UNCHANGED nonSchedVars
IdleSleepDone ==
    /\ r_pc = "idle_sleep"
    /\ timestamp_ns >= r_wake
    /\ r_pc' = "top"
    /\ r_wake' = 0
    /\ r_now' = 0
    /\ UNCHANGED <<returned_rx, config, items, status, schedule, sequence, running,
                   trigger_rx_open, triggers, clock, min_interval_ns,
                   last_poll_ns, r_entry, r_item, r_actual, h_pc, h_item,
                   h_now, h_adds, g_epoch, g_dispatch, g_failures,
                   g_stop_called, g_removed, g_complete>>
    /\ UNCHANGED nonSchedVars
\* The time the loop sleeps before a trigger.
RateLimitSleepMutantShort(now, last, min_interval) ==
    IF now - last < min_interval THEN min_interval - (now - last) - 1 ELSE 0

RateLimitSleep(now, last, min_interval) ==
    IF now - last < min_interval THEN min_interval - (now - last) ELSE 0

\* The item is cloned out of the map; an entry whose item is gone or disabled
\* is dropped.  For an enabled item the rate limit sleep starts.
Lookup ==
    /\ r_pc = "lookup"
    /\ IF r_entry.poll_id \in DOMAIN items /\ items[r_entry.poll_id].enabled
         THEN /\ r_item' = items[r_entry.poll_id]
              /\ r_wake' = timestamp_ns +
                     RateLimitSleep(r_now, last_poll_ns, min_interval_ns)
              /\ r_pc' = "rate_sleep"
              /\ UNCHANGED <<r_entry, r_now>>
         ELSE /\ r_pc' = "top"
              /\ r_entry' = NoEntry
              /\ r_now' = 0
              /\ UNCHANGED <<r_item, r_wake>>
    /\ UNCHANGED <<returned_rx, config, items, status, schedule, sequence, running,
                   trigger_rx_open, triggers, clock, min_interval_ns,
                   last_poll_ns, r_actual, h_pc, h_item, h_now, h_adds,
                   g_epoch, g_dispatch, g_failures,
                   g_stop_called, g_removed, g_complete>>
    /\ UNCHANGED nonSchedVars
\* The sleep is over at or after its deadline.  Then actual_time is read,
\* the sequence number is drawn and the trigger is sent; a closed channel
\* ends the loop.
Trigger ==
    /\ r_pc = "rate_sleep"
    /\ timestamp_ns >= r_wake
    /\ r_actual' = timestamp_ns
    /\ last_poll_ns' = timestamp_ns
    /\ sequence' = sequence + 1
    /\ r_wake' = 0
    /\ IF trigger_rx_open
         THEN /\ triggers' = Append(triggers,
                     [poll_id |-> r_item.poll_id,
                      sequence_number |-> sequence,
                      scheduled_time_ns |-> r_entry.next_time_ns,
                      actual_time_ns |-> timestamp_ns])
              /\ g_dispatch' = Append(g_dispatch,
                     [interval_ms |-> r_item.current_interval_ms,
                      epoch |-> g_epoch[r_item.poll_id],
                      removed |-> g_removed[r_item.poll_id]])
              /\ r_pc' = "status"
         ELSE /\ r_pc' = "done"
              /\ UNCHANGED <<triggers, g_dispatch>>
    /\ UNCHANGED <<returned_rx, config, items, status, schedule, running, trigger_rx_open,
                   clock, min_interval_ns, r_now, r_entry, r_item, h_pc,
                   h_item, h_now, h_adds, g_epoch, g_failures,
                   g_stop_called, g_removed, g_complete>>
    /\ UNCHANGED nonSchedVars
UpdateStatus ==
    /\ r_pc = "status"
    /\ status' = IF r_entry.poll_id \in DOMAIN status
                   THEN [status EXCEPT
                           ![r_entry.poll_id].last_poll_ns = r_actual,
                           ![r_entry.poll_id].next_poll_ns =
                               r_actual + r_item.current_interval_ms * NsPerMs]
                   ELSE status
    /\ r_pc' = "reschedule"
    /\ UNCHANGED <<returned_rx, config, items, schedule, sequence, running,
                   trigger_rx_open, triggers, clock, min_interval_ns,
                   last_poll_ns, r_now, r_entry, r_item, r_actual, r_wake,
                   h_pc, h_item, h_now, h_adds, g_epoch, g_dispatch,
                   g_failures,
                   g_stop_called, g_removed, g_complete>>
    /\ UNCHANGED nonSchedVars
Reschedule ==
    /\ r_pc = "reschedule"
    /\ schedule' = Push(schedule,
           ScheduleEntry(r_actual + r_item.current_interval_ms * NsPerMs,
                         r_item.priority, r_item.poll_id))
    /\ r_pc' = "top"
    /\ r_entry' = NoEntry
    /\ r_item' = NoItem
    /\ r_actual' = 0
    /\ r_now' = 0
    /\ UNCHANGED <<returned_rx, config, items, status, sequence, running, trigger_rx_open,
                   triggers, clock, min_interval_ns, last_poll_ns, r_wake,
                   h_pc, h_item, h_now, h_adds, g_epoch, g_dispatch,
                   g_failures,
                   g_stop_called, g_removed, g_complete>>
    /\ UNCHANGED nonSchedVars
\* Time passes.
Tick ==
    /\ clock < MaxTime
    /\ clock' = clock + 1
    /\ UNCHANGED <<returned_rx, config, items, status, schedule, sequence, running,
                   trigger_rx_open, triggers, r_pc, min_interval_ns,
                   last_poll_ns, r_now, r_entry, r_item, r_actual, r_wake,
                   h_pc, h_item, h_now, h_adds, g_epoch, g_dispatch,
                   g_failures,
                   g_stop_called, g_removed, g_complete>>
    /\ UNCHANGED nonSchedVars
AddPollNext ==
    \/ \E id \in PollIds, reg \in RegisterConfigs :
           AddPollItems(id, reg.poll_interval_ms, reg.priority)
    \/ AddPollStatus
    \/ AddPollPush

RemovePollNext ==
    \/ \E id \in PollIds : RemovePollItems(id)
    \/ RemovePollStatus

RunNext ==
    \/ RunSpawn
    \/ RunStart
    \/ LoopTop
    \/ PopDue
    \/ IdleSleepDone
    \/ Lookup
    \/ Trigger
    \/ UpdateStatus
    \/ Reschedule

\* The host registers its polls before it starts the loop, as the gateway
\* does (gateway/lite.rs:136-140); an add_poll that has begun may end after
\* the loop started.
Configure(id, base, prio) ==
    /\ r_pc = "init"
    /\ AddPollItems(id, base, prio)

\* The run loop, the polls it is started with and the clock.
SchedNext ==
    \/ \E id \in PollIds, reg \in RegisterConfigs :
           Configure(id, reg.poll_interval_ms, reg.priority)
    \/ AddPollStatus
    \/ AddPollPush
    \/ RunNext
    \/ Tick

\* The host's calls that touch the interval of a poll.
BackoffNext ==
    \/ AddPollNext
    \/ RemovePollNext
    \/ \E id \in PollIds, enabled \in BOOLEAN : SetEnabled(id, enabled)
    \/ \E id \in PollIds, success \in BOOLEAN :
           PollComplete(id, sequence, success, 0)

\* The host adds and removes polls and reports completions with whatever
\* sequence number and latency.
FeedbackNext ==
    \/ AddPollNext
    \/ RemovePollNext
    \/ \E id \in PollIds, seq \in SequenceNumbers, success \in BOOLEAN,
          latency_us \in Latencies :
            PollComplete(id, seq, success, latency_us)

(***************************************************************************)
(* Stream emitter: emitter/mod.rs                                          *)
(***************************************************************************)
\* Option<T>
Some(v) == [some |-> TRUE, v |-> v]
None == [some |-> FALSE, v |-> 0]

Abs(x) == IF x < 0 THEN -x ELSE x

Range(seq) == {seq[i] : i \in DOMAIN seq}

\* The registers added to the emitter, by address, on one device.  Values
\* are f64 in the code and whole numbers here: every scale, offset and
\* threshold of the model is a whole number.  Whether the registers emit on
\* change only, and their change threshold, is part of the setup.
RegisterTable ==
    (100 :> [name |-> "temperature", data_type |-> "UInt16",
             scale |-> 1, offset |-> 0])
    @@ (101 :> [name |-> "pressure", data_type |-> "Int16",
                scale |-> 2, offset |-> 1])

Addresses == DOMAIN RegisterTable

\* The alarm added to the emitter: it watches register 100.
AlarmConfigs ==
    [alarm_id : {"high_temp"},
     register_name : {"temperature"},
     condition : {"GreaterThan", "GreaterOrEqual"},
     threshold_lo : {0},
     threshold_hi : {80},
     hysteresis : {2},
     debounce_ms : {0, 2},
     enabled : {TRUE}]

\* Alarms of every AlarmCondition variant on register 100, enabled or not:
\* the words 78 and 79 lie between the thresholds, 77 and 85 outside.
ConditionConfigs ==
    [alarm_id : {"temp_band"},
     register_name : {"temperature"},
     condition : {"GreaterThan", "LessThan", "Equal", "NotEqual",
                  "GreaterOrEqual", "LessOrEqual", "Between", "Outside"},
     threshold_lo : {78},
     threshold_hi : {79},
     hysteresis : {2},
     debounce_ms : {0, 2},
     enabled : BOOLEAN]

\* The register emits every word, or on a change of more than 1 only.
AlarmSetups ==
    {setup \in [emit_on_change : BOOLEAN,
                change_threshold : {0, 1},
                alarm : ConditionConfigs] :
        setup.emit_on_change <=> setup.change_threshold = 1}

\* The change threshold only matters to registers that emit on change.
EmitterSetups ==
    {setup \in [emit_on_change : BOOLEAN,
                change_threshold : {0, 1},
                alarm : AlarmConfigs] :
        setup.emit_on_change \/ setup.change_threshold = 0}

DefaultEmitterSetup ==
    [emit_on_change |-> TRUE,
     change_threshold |-> 0,
     alarm |-> [alarm_id |-> "high_temp", register_name |-> "temperature",
                condition |-> "GreaterThan", threshold_lo |-> 0,
                threshold_hi |-> 80, hysteresis |-> 2, debounce_ms |-> 0,
                enabled |-> TRUE]]

\* The calls of process_raw: one word for register 100, two words for
\* registers 100 and 101, and two words from address 99, which has no
\* register, on.
RawWords == {77, 78, 79, 85}
ProcessRawCalls ==
    {[start_address |-> 100, values |-> <<w>>] : w \in RawWords}
    \cup {[start_address |-> 100, values |-> <<85, 78>>],
          [start_address |-> 99, values |-> <<79, 85>>]}

\* The calls that concurrent callers make: a value that clears the alarm and
\* one that raises it.
AlarmCalls ==
    {[start_address |-> 100, values |-> <<w>>] : w \in {77, 85}}

EmitTasks == 1 .. NumEmitTasks

NoArgs == [start_address |-> 0, values |-> <<>>]
\* What evaluate_alarms did in a call: whether the condition was evaluated,
\* on which value, the state before and after, the alarm events sent, and the
\* timestamps of the alarm events sent before the call.
NoEval == [evaluated |-> FALSE, value |-> 0, was_active |-> FALSE,
           now_active |-> FALSE, alarm_events |-> <<>>, earlier |-> {}]

\* StreamEmitter::new followed by add_register for every register of the
\* table and add_alarm for the alarm of the setup.
EmitterInitWith(setup) ==
    /\ e_setup = setup
    /\ registers = [a \in Addresses |-> [last_value |-> None]]
    /\ alarms = [state |-> "Normal", active_since_ns |-> None,
                 debounce_until_ns |-> None]
    /\ event_id = 1
    /\ e_pc = [t \in EmitTasks |-> "idle"]
    /\ e_ts = [t \in EmitTasks |-> 0]
    /\ e_args = [t \in EmitTasks |-> NoArgs]
    /\ e_out = [t \in EmitTasks |-> <<>>]
    /\ e_eval = [t \in EmitTasks |-> NoEval]
    /\ e_calls = 0
    /\ g_last_event = [a \in Addresses |-> None]
    /\ g_transition_times = {}
    /\ g_alarm_states = <<>>

\* u16 -> i16
AsI16(raw) == IF raw >= 32768 THEN raw - 65536 ELSE raw

convert_raw(raw, data_type) ==
    CASE data_type = "UInt16" -> raw
      [] data_type = "Int16" -> AsI16(raw)
      [] data_type = "Boolean" -> (IF raw # 0 THEN 1 ELSE 0)
      [] OTHER -> raw

\* RegisterValue::scaled
scaled(typed_value, scale, offset) == typed_value * scale + offset

ScaledWord(address, raw) ==
    scaled(convert_raw(raw, RegisterTable[address].data_type),
           RegisterTable[address].scale, RegisterTable[address].offset)

should_emit_MutantAtThreshold(last_value, value) ==
    IF e_setup.emit_on_change
      THEN IF last_value.some
             THEN Abs(value - last_value.v) >= e_setup.change_threshold
             ELSE TRUE
      ELSE TRUE

should_emit(last_value, value) ==
    IF e_setup.emit_on_change
      THEN IF last_value.some
             THEN Abs(value - last_value.v) > e_setup.change_threshold
             ELSE TRUE
      ELSE TRUE

evaluate_condition_MutantNoHysteresis(value, cfg, currently_active) ==
    CASE cfg.condition = "GreaterThan" -> value > cfg.threshold_hi
      [] cfg.condition = "GreaterOrEqual" -> value >= cfg.threshold_hi
      [] OTHER -> FALSE

evaluate_condition(value, cfg, currently_active) ==
    LET threshold_hi == IF currently_active
                          THEN cfg.threshold_hi - cfg.hysteresis
                          ELSE cfg.threshold_hi
        threshold_lo == IF currently_active
                          THEN cfg.threshold_lo + cfg.hysteresis
                          ELSE cfg.threshold_lo
    IN CASE cfg.condition = "GreaterThan" -> value > threshold_hi
         [] cfg.condition = "LessThan" -> value < threshold_lo
         [] cfg.condition = "Equal" -> value = cfg.threshold_hi
         [] cfg.condition = "NotEqual" -> value # cfg.threshold_hi
         [] cfg.condition = "GreaterOrEqual" -> value >= threshold_hi
         [] cfg.condition = "LessOrEqual" -> value <= threshold_lo
         [] cfg.condition = "Between" ->
                value >= threshold_lo /\ value <= threshold_hi
         [] cfg.condition = "Outside" ->
                value < threshold_lo \/ value > threshold_hi

\* if let Some(until) = debounce_until_ns { if timestamp_ns < until { continue } }
DebouncedMutantNever(timestamp, until) == FALSE

Debounced(timestamp, until) == until.some /\ timestamp < until.v

\* Whether evaluate_alarms gets as far as the condition of the alarm.
Evaluates(register_name, timestamp) ==
    /\ e_setup.alarm.register_name = register_name
    /\ e_setup.alarm.enabled
    /\ ~Debounced(timestamp, alarms.debounce_until_ns)

NewAlarmState(value) ==
    IF evaluate_condition(value, e_setup.alarm, alarms.state = "Active")
      THEN "Active"
      ELSE "Normal"

\* The tracking record after evaluate_alarms.
AlarmsAfter(register_name, value, timestamp) ==
    IF Evaluates(register_name, timestamp) /\ NewAlarmState(value) # alarms.state
      THEN [state |-> NewAlarmState(value),
            active_since_ns |->
                IF NewAlarmState(value) = "Active"
                  THEN Some(timestamp)
                  ELSE alarms.active_since_ns,
            debounce_until_ns |->
                IF e_setup.alarm.debounce_ms > 0
                  THEN Some(timestamp + e_setup.alarm.debounce_ms * NsPerMs)
                  ELSE alarms.debounce_until_ns]
      ELSE alarms

\* The alarm events evaluate_alarms sends.
AlarmEventsOfMutantEveryEvaluation(register_name, value, timestamp) ==
    IF Evaluates(register_name, timestamp)
      THEN <<[alarm_id |-> e_setup.alarm.alarm_id,
              state |-> NewAlarmState(value),
              current_value |-> value,
              timestamp_ns |-> timestamp]>>
      ELSE <<>>

AlarmEventsOf(register_name, value, timestamp) ==
    IF Evaluates(register_name, timestamp) /\ NewAlarmState(value) # alarms.state
      THEN <<[alarm_id |-> e_setup.alarm.alarm_id,
              state |-> NewAlarmState(value),
              current_value |-> value,
              timestamp_ns |-> timestamp]>>
      ELSE <<>>

\* The index of the first word whose register emits, or 0: the loop of
\* process_raw ends with the first event it sends.
FirstEmitting(start_address, values) ==
    LET emitting == {i \in 1 .. Len(values) :
                       /\ start_address + (i - 1) \in Addresses
                       /\ should_emit(
                              registers[start_address + (i - 1)].last_value,
                              ScaledWord(start_address + (i - 1), values[i]))}
    IN IF emitting = {}
         THEN 0
         ELSE CHOOSE i \in emitting : \A j \in emitting : i <= j

\* ---- process_raw ----
\* let server_timestamp = timestamp_ns();  the task then waits for the write
\* lock of the registers.
ProcessRawBegin(t, start_address, values) ==
    /\ e_pc[t] = "idle"
    /\ e_calls < MaxProcessCalls
    /\ e_calls' = e_calls + 1
    /\ e_ts' = [e_ts EXCEPT ![t] = timestamp_ns]
    /\ e_args' = [e_args EXCEPT ![t] =
                      [start_address |-> start_address, values |-> values]]
    /\ e_out' = [e_out EXCEPT ![t] = <<>>]
    /\ e_eval' = [e_eval EXCEPT ![t] = NoEval]
    /\ e_pc' = [e_pc EXCEPT ![t] = "stamped"]
    /\ UNCHANGED <<e_setup, registers, alarms, event_id,
                   g_last_event,
                   g_transition_times, g_alarm_states>>
    /\ UNCHANGED nonEmitVars
\* The rest of process_raw runs under the write lock of the registers, which
\* is held until the call returns, evaluate_alarms included.
ProcessRawLocked(t) ==
    /\ e_pc[t] = "stamped"
    /\ e_pc' = [e_pc EXCEPT ![t] = "returned"]
    /\ LET i == FirstEmitting(e_args[t].start_address, e_args[t].values)
           address == e_args[t].start_address + (i - 1)
           value == ScaledWord(address, e_args[t].values[i])
           name == RegisterTable[address].name
       IN IF i = 0
            THEN UNCHANGED <<registers, event_id, e_out, g_last_event,
                             alarms, e_eval, g_transition_times,
                             g_alarm_states>>
            ELSE /\ registers' = [registers EXCEPT
                                     ![address].last_value = Some(value)]
                 /\ event_id' = event_id + 1
                 /\ e_out' = [e_out EXCEPT ![t] =
                       <<[event_id |-> event_id,
                          address |-> address,
                          name |-> name,
                          value |-> value,
                          server_timestamp_ns |-> e_ts[t],
                          previous |-> g_last_event[address]]>>]
                 /\ g_last_event' = [g_last_event EXCEPT ![address] = Some(value)]
                 /\ alarms' = AlarmsAfter(name, value, e_ts[t])
                 /\ g_alarm_states' = g_alarm_states \o
                        [k \in DOMAIN AlarmEventsOf(name, value, e_ts[t]) |->
                            AlarmEventsOf(name, value, e_ts[t])[k].state]
                 /\ g_transition_times' = g_transition_times \cup
                        {e.timestamp_ns : e \in
                            Range(AlarmEventsOf(name, value, e_ts[t]))}
                 /\ e_eval' = [e_eval EXCEPT ![t] =
                        [evaluated |-> Evaluates(name, e_ts[t]),
                         value |-> value,
                         was_active |-> alarms.state = "Active",
                         now_active |->
                             AlarmsAfter(name, value, e_ts[t]).state = "Active",
                         alarm_events |-> AlarmEventsOf(name, value, e_ts[t]),
                         earlier |-> g_transition_times]]
    /\ UNCHANGED <<e_setup, e_ts, e_args, e_calls>>
    /\ UNCHANGED nonEmitVars
\* The caller takes the result.
ProcessRawReturn(t) ==
    /\ e_pc[t] = "returned"
    /\ e_pc' = [e_pc EXCEPT ![t] = "idle"]
    /\ e_ts' = [e_ts EXCEPT ![t] = 0]
    /\ e_args' = [e_args EXCEPT ![t] = NoArgs]
    /\ e_out' = [e_out EXCEPT ![t] = <<>>]
    /\ e_eval' = [e_eval EXCEPT ![t] = NoEval]
    /\ UNCHANGED <<e_setup, registers, alarms, event_id,
                   e_calls, g_last_event,
                   g_transition_times, g_alarm_states>>
    /\ UNCHANGED nonEmitVars
\* One caller of process_raw.
EmitterNext ==
    \/ \E t \in {1}, call \in ProcessRawCalls :
           ProcessRawBegin(t, call.start_address, call.values)
    \/ \E t \in {1} : ProcessRawLocked(t)
    \/ \E t \in {1} : ProcessRawReturn(t)
    \/ Tick

\* Concurrent callers of process_raw.
EmitterConcNext ==
    \/ \E t \in EmitTasks, call \in AlarmCalls :
           ProcessRawBegin(t, call.start_address, call.values)
    \/ \E t \in EmitTasks : ProcessRawLocked(t)
    \/ \E t \in EmitTasks : ProcessRawReturn(t)
    \/ Tick

(***************************************************************************)
(* StreamSight bridge: streamsight/mod.rs                                  *)
(***************************************************************************)
\* The telemetry events the bridge is fed: the TcpEvent variants
\* StateChange, RequestSent and Error.
TelemetryEvents == {"StateChange", "RequestSent", "Error"}

\* enum Severity
Debug == 0
Info == 1
Warning == 2

\* The severity process_tcp_event gives an event.
SeverityOf(event) ==
    CASE event = "StateChange" -> Info
      [] event = "RequestSent" -> Debug
      [] event = "Error" -> Warning

\* The payload process_tcp_event builds, as the list of its fields.
PayloadOf(event) ==
    CASE event = "StateChange" ->
             <<"type", "old_state", "new_state", "timestamp_ns">>
      [] event = "RequestSent" ->
             <<"type", "request_id", "bytes", "timestamp_ns">>
      [] event = "Error" ->
             <<"type", "error_code", "message", "timestamp_ns">>

\* serde_json::to_string(&event.payload).len(), counted in fields.
PayloadBytes(lex_event) == Len(lex_event.payload)

RECURSIVE BytesOf(_)
BytesOf(events) ==
    IF events = <<>>
      THEN 0
      ELSE PayloadBytes(Head(events)) + BytesOf(Tail(events))

\* The bridge configurations explored.  sampling_rate is an f32 in the code
\* and counted in halves here: 2 is the default 1.0, 1 is 0.5, and -1 is a
\* negative rate, which the configuration does not exclude.
SamplingOne == 2
BridgeConfigs ==
    [severity_filter : {Debug, Info},
     batch_size : {2},
     sampling_rate : {-1, 1, SamplingOne}]

DefaultBridgeConfig ==
    [severity_filter |-> Debug, batch_size |-> 2, sampling_rate |-> SamplingOne]

BridgeTasks == 1 .. NumBridgeTasks

NoEvent == "none"
NoLex == [topic |-> "none", payload |-> <<>>, severity |-> 0,
          sequence_number |-> 0]

BridgeMetricsDefault ==
    [events_received |-> 0, events_emitted |-> 0, events_filtered |-> 0,
     events_sampled_out |-> 0, batches_sent |-> 0, bytes_sent |-> 0]

\* StreamSightBridge::new.  The receiver of the output channel is held by
\* the caller (rx_open) or was dropped: GatewayLite::new never uses
\* lex_event_rx, which is dropped when new returns.
BridgeInitChannel(cfg, rx_open, capacity) ==
    /\ b_config = cfg
    /\ output_capacity = capacity
    /\ output_taken = 0
    /\ metrics = BridgeMetricsDefault
    /\ lex_sequence = 1
    /\ buffer = <<>>
    /\ output = <<>>
    /\ output_rx_open = rx_open
    /\ b_pc = [t \in BridgeTasks |-> "idle"]
    /\ b_event = [t \in BridgeTasks |-> NoEvent]
    /\ b_lex = [t \in BridgeTasks |-> NoLex]
    /\ b_auto = [t \in BridgeTasks |-> FALSE]
    /\ b_events = [t \in BridgeTasks |-> <<>>]
    /\ b_before = [t \in BridgeTasks |-> 0]
    /\ b_calls = 0

\* The output channel as GatewayLite::new creates it: mpsc::channel(256).
BridgeInitWith(cfg, rx_open) == BridgeInitChannel(cfg, rx_open, OutputCapacity)

\* The free slots of the output channel.
Room == output_capacity - (Len(output) - output_taken)

\* The write lock of the metrics is free: no flush is waiting inside
\* output_tx.send(event).await, which it does with the lock held.
MetricsFree == \A u \in BridgeTasks : b_pc[u] # "sending"

\* mod rand: random::<f32>() returns f32::default().
random == 0

\* if (severity as u8) < self.config.severity_filter
FilteredOutMutantNever(severity) == FALSE

FilteredOut(severity) == severity < b_config.severity_filter

\* if severity == Severity::Debug && sampling_rate < 1.0 { r > sampling_rate }
SampledOut(severity) ==
    /\ severity = Debug
    /\ b_config.sampling_rate < SamplingOne
    /\ random > b_config.sampling_rate

\* metrics.events_emitted += events.len()
EmittedByMutantSentOnly(events) == IF output_rx_open THEN Len(events) ELSE 0

EmittedBy(events) == Len(events)

ForwardedMutantIgnoresClosed(events) ==
    SubSeq(events, 1, Min(Len(events), Room))

\* The records the loop of flush hands to the output channel before it
\* must wait or stop: those that fit, or none when the receiver is gone and
\* the first send fails.
Forwarded(events) ==
    IF output_rx_open THEN SubSeq(events, 1, Min(Len(events), Room)) ELSE <<>>

\* The bytes the loop of flush counts: those of every record it reaches,
\* the one whose send waits or fails included.
BytesCounted(events) ==
    IF output_rx_open
      THEN BytesOf(SubSeq(events, 1, Min(Len(events), Room + 1)))
      ELSE PayloadBytes(Head(events))

\* ---- process ----
\* self.metrics.write().await.events_received += 1
Process(t, event) ==
    /\ b_pc[t] = "idle"
    /\ b_calls < MaxBridgeCalls
    /\ MetricsFree
    /\ b_calls' = b_calls + 1
    /\ metrics' = [metrics EXCEPT !.events_received = @ + 1]
    /\ b_event' = [b_event EXCEPT ![t] = event]
    /\ b_pc' = [b_pc EXCEPT ![t] = "received"]
    /\ UNCHANGED <<b_config, lex_sequence, buffer, output, output_rx_open, output_capacity,
                   output_taken,
                   b_lex, b_auto, b_events, b_before>>
    /\ UNCHANGED nonBridgeVars

\* The severity filter, the sampling, and the sequence number of a record
\* that passes both.
ProcessFilter(t) ==
    /\ b_pc[t] = "received"
    /\ (FilteredOut(SeverityOf(b_event[t])) \/ SampledOut(SeverityOf(b_event[t])))
           => MetricsFree
    /\ LET severity == SeverityOf(b_event[t])
       IN IF FilteredOut(severity)
            THEN /\ metrics' = [metrics EXCEPT !.events_filtered = @ + 1]
                 /\ b_pc' = [b_pc EXCEPT ![t] = "idle"]
                 /\ UNCHANGED <<lex_sequence, b_lex>>
            ELSE IF SampledOut(severity)
                   THEN /\ metrics' = [metrics EXCEPT
                                           !.events_sampled_out = @ + 1]
                        /\ b_pc' = [b_pc EXCEPT ![t] = "idle"]
                        /\ UNCHANGED <<lex_sequence, b_lex>>
                   ELSE /\ lex_sequence' = lex_sequence + 1
                        /\ b_lex' = [b_lex EXCEPT ![t] =
                               [topic |-> "connection",
                                payload |-> PayloadOf(b_event[t]),
                                severity |-> severity,
                                sequence_number |-> lex_sequence]]
                        /\ b_pc' = [b_pc EXCEPT ![t] = "built"]
                        /\ UNCHANGED metrics
    /\ b_event' = [b_event EXCEPT ![t] = NoEvent]
    /\ UNCHANGED <<b_config, buffer, output, output_rx_open, output_capacity,
                   output_taken, b_auto,
                   b_events, b_before, b_calls>>
    /\ UNCHANGED nonBridgeVars

\* buffer.push(lex_event); buffer.len() >= batch_size, under the write lock
\* of the buffer; process then calls flush or returns.
ProcessPush(t) ==
    /\ b_pc[t] = "built"
    /\ buffer' = Append(buffer, b_lex[t])
    /\ b_lex' = [b_lex EXCEPT ![t] = NoLex]
    /\ IF Len(buffer') >= b_config.batch_size
         THEN /\ b_pc' = [b_pc EXCEPT ![t] = "flush"]
              /\ b_auto' = [b_auto EXCEPT ![t] = TRUE]
         ELSE /\ b_pc' = [b_pc EXCEPT ![t] = "idle"]
              /\ UNCHANGED b_auto
    /\ UNCHANGED <<b_config, metrics, lex_sequence, output, output_rx_open, output_capacity,
                   output_taken,
                   b_event, b_events, b_before, b_calls>>
    /\ UNCHANGED nonBridgeVars

\* ---- flush ----
\* A caller other than process calls flush: a manual flush, or
\* GatewayLite::stop.
Flush(t) ==
    /\ b_pc[t] = "idle"
    /\ b_calls < MaxBridgeCalls
    /\ b_calls' = b_calls + 1
    /\ b_auto' = [b_auto EXCEPT ![t] = FALSE]
    /\ b_pc' = [b_pc EXCEPT ![t] = "flush"]
    /\ UNCHANGED <<b_config, metrics, lex_sequence, buffer, output,
                   output_rx_open, output_capacity,
                   output_taken, b_event, b_lex, b_events, b_before>>
    /\ UNCHANGED nonBridgeVars

\* std::mem::take(&mut *buffer) under the write lock of the buffer; flush
\* returns when it took nothing.
FlushTake(t) ==
    /\ b_pc[t] = "flush"
    /\ buffer' = <<>>
    /\ IF buffer = <<>>
         THEN /\ b_pc' = [b_pc EXCEPT ![t] = "idle"]
              /\ b_auto' = [b_auto EXCEPT ![t] = FALSE]
              /\ UNCHANGED b_events
         ELSE /\ b_pc' = [b_pc EXCEPT ![t] = "taken"]
              /\ b_events' = [b_events EXCEPT ![t] = buffer]
              /\ UNCHANGED b_auto
    /\ UNCHANGED <<b_config, metrics, lex_sequence, output, output_rx_open, output_capacity,
                   output_taken,
                   b_event, b_lex, b_before, b_calls>>
    /\ UNCHANGED nonBridgeVars

\* The counters and the loop over the records, all under the write lock of
\* the metrics.  output_tx.send(event).await waits while the channel is
\* full: the loop then stops at that record, with the lock held.
FlushSend(t) ==
    /\ b_pc[t] = "taken"
    /\ MetricsFree
    /\ metrics' = [metrics EXCEPT
                       !.events_emitted = @ + EmittedBy(b_events[t]),
                       !.batches_sent = @ + 1,
                       !.bytes_sent = @ + BytesCounted(b_events[t])]
    /\ output' = output \o Forwarded(b_events[t])
    /\ b_before' = [b_before EXCEPT ![t] = Len(output)]
    /\ IF output_rx_open /\ Room < Len(b_events[t])
         THEN /\ b_pc' = [b_pc EXCEPT ![t] = "sending"]
              /\ b_events' = [b_events EXCEPT ![t] =
                     SubSeq(@, Room + 1, Len(@))]
         ELSE /\ b_pc' = [b_pc EXCEPT ![t] = "flushed"]
              /\ UNCHANGED b_events
    /\ UNCHANGED <<b_config, lex_sequence, buffer, output_rx_open,
                   output_capacity, output_taken, b_event,
                   b_lex, b_auto, b_calls>>
    /\ UNCHANGED nonBridgeVars

\* The channel has room again: the waiting send completes and the loop goes
\* on with the records after it, whose bytes it counts as it reaches them.
FlushResume(t) ==
    /\ b_pc[t] = "sending"
    /\ Room > 0
    /\ metrics' = [metrics EXCEPT
                       !.bytes_sent = @ + BytesOf(SubSeq(b_events[t], 2,
                                          Min(Len(b_events[t]), Room + 1)))]
    /\ output' = output \o Forwarded(b_events[t])
    /\ IF Room < Len(b_events[t])
         THEN /\ b_events' = [b_events EXCEPT ![t] =
                     SubSeq(@, Room + 1, Len(@))]
              /\ UNCHANGED b_pc
         ELSE /\ b_pc' = [b_pc EXCEPT ![t] = "flushed"]
              /\ b_events' = [b_events EXCEPT ![t] = <<>>]
    /\ UNCHANGED <<b_config, lex_sequence, buffer, output_rx_open,
                   output_capacity, output_taken, b_event,
                   b_lex, b_auto, b_before, b_calls>>
    /\ UNCHANGED nonBridgeVars

\* The holder of the receiver takes a record from the channel.
Receive ==
    /\ output_rx_open
    /\ output_taken < Len(output)
    /\ output_taken' = output_taken + 1
    /\ UNCHANGED <<b_config, metrics, lex_sequence, buffer, output,
                   output_rx_open, output_capacity, b_pc, b_event, b_lex,
                   b_auto, b_events, b_before, b_calls>>
    /\ UNCHANGED nonBridgeVars

\* flush returns, and with it the process call that made it.
FlushReturn(t) ==
    /\ b_pc[t] = "flushed"
    /\ b_pc' = [b_pc EXCEPT ![t] = "idle"]
    /\ b_auto' = [b_auto EXCEPT ![t] = FALSE]
    /\ b_events' = [b_events EXCEPT ![t] = <<>>]
    /\ b_before' = [b_before EXCEPT ![t] = 0]
    /\ UNCHANGED <<b_config, metrics, lex_sequence, buffer, output,
                   output_rx_open, output_capacity,
                   output_taken, b_event, b_lex, b_calls>>
    /\ UNCHANGED nonBridgeVars

\* One caller of the bridge.
BridgeNext ==
    \/ \E t \in {1}, event \in TelemetryEvents : Process(t, event)
    \/ \E t \in {1} : ProcessFilter(t)
    \/ \E t \in {1} : ProcessPush(t)
    \/ \E t \in {1} : Flush(t)
    \/ \E t \in {1} : FlushTake(t)
    \/ \E t \in {1} : FlushSend(t)
    \/ \E t \in {1} : FlushReturn(t)

\* Concurrent callers of the bridge.
BridgeConcNext ==
    \/ \E t \in BridgeTasks, event \in TelemetryEvents : Process(t, event)
    \/ \E t \in BridgeTasks : ProcessFilter(t)
    \/ \E t \in BridgeTasks : ProcessPush(t)
    \/ \E t \in BridgeTasks : Flush(t)
    \/ \E t \in BridgeTasks : FlushTake(t)
    \/ \E t \in BridgeTasks : FlushSend(t)
    \/ \E t \in BridgeTasks : FlushReturn(t)

\* Concurrent callers of the bridge and the holder of the receiver, who
\* takes records or leaves them.
BridgeFullNext ==
    \/ BridgeConcNext
    \/ \E t \in BridgeTasks : FlushResume(t)
    \/ Receive

(***************************************************************************)
(* The locks of the stream emitter: emitter/mod.rs                         *)
(***************************************************************************)
LockTasks == 1 .. NumLockTasks

\* tokio::sync::RwLock: one writer or any number of readers; requests are
\* served in the order they were made, so that a waiting writer holds back
\* the readers that ask after it.
FreeLock == [writer |-> 0, readers |-> {}, queue |-> <<>>]

Request(lock, t, write) ==
    [lock EXCEPT !.queue = Append(@, [task |-> t, write |-> write])]

CanGrant(lock) ==
    /\ lock.queue # <<>>
    /\ lock.writer = 0
    /\ Head(lock.queue).write => lock.readers = {}

Granted(lock) ==
    IF Head(lock.queue).write
      THEN [lock EXCEPT !.writer = Head(lock.queue).task, !.queue = Tail(@)]
      ELSE [lock EXCEPT !.readers = @ \cup {Head(lock.queue).task},
                        !.queue = Tail(@)]

HoldsWrite(lock, t) == lock.writer = t

HoldsRead(lock, t) == t \in lock.readers

\* The guard of task t is dropped.
Released(lock, t) ==
    [lock EXCEPT !.writer = IF @ = t THEN 0 ELSE @, !.readers = @ \ {t}]

LocksInit ==
    /\ lock_registers = FreeLock
    /\ lock_by_name = FreeLock
    /\ lock_alarms = FreeLock
    /\ k_pc = [t \in LockTasks |-> "idle"]
    /\ k_emits = [t \in LockTasks |-> FALSE]

\* The locks hand themselves to the request at the head of their queue.
GrantRegisters ==
    /\ CanGrant(lock_registers)
    /\ lock_registers' = Granted(lock_registers)
    /\ UNCHANGED <<lock_by_name, lock_alarms, k_pc, k_emits>>
    /\ UNCHANGED nonLockVars
GrantByName ==
    /\ CanGrant(lock_by_name)
    /\ lock_by_name' = Granted(lock_by_name)
    /\ UNCHANGED <<lock_registers, lock_alarms, k_pc, k_emits>>
    /\ UNCHANGED nonLockVars
GrantAlarms ==
    /\ CanGrant(lock_alarms)
    /\ lock_alarms' = Granted(lock_alarms)
    /\ UNCHANGED <<lock_registers, lock_by_name, k_pc, k_emits>>
    /\ UNCHANGED nonLockVars

\* ---- process_raw ----
\* let mut registers = self.registers.write().await
LockedRawBegin(t, emits) ==
    /\ k_pc[t] = "idle"
    /\ lock_registers' = Request(lock_registers, t, TRUE)
    /\ k_pc' = [k_pc EXCEPT ![t] = "raw_registers"]
    /\ k_emits' = [k_emits EXCEPT ![t] = emits]
    /\ UNCHANGED <<lock_by_name, lock_alarms>>
    /\ UNCHANGED nonLockVars
\* let alarms = self.alarms.read().await
LockedRawAlarms(t) ==
    /\ k_pc[t] = "raw_registers"
    /\ HoldsWrite(lock_registers, t)
    /\ lock_alarms' = Request(lock_alarms, t, FALSE)
    /\ k_pc' = [k_pc EXCEPT ![t] = "raw_alarms"]
    /\ UNCHANGED <<lock_registers, lock_by_name, k_emits>>
    /\ UNCHANGED nonLockVars
\* drop(alarms) before evaluate_alarms
AfterDropMutantKept(lock, t) == lock

AfterDrop(lock, t) == Released(lock, t)

\* The loop over the words.  A word that passes change detection sends its
\* event (the consumer takes it), drops the read guard of the alarms and
\* calls evaluate_alarms, which asks for the write lock; without such a word
\* the call returns and drops both guards.
LockedRawLoop(t) ==
    /\ k_pc[t] = "raw_alarms"
    /\ HoldsRead(lock_alarms, t)
    /\ IF k_emits[t]
         THEN /\ lock_alarms' = Request(AfterDrop(lock_alarms, t), t, TRUE)
              /\ k_pc' = [k_pc EXCEPT ![t] = "raw_evaluate"]
              /\ UNCHANGED <<lock_registers, k_emits>>
         ELSE /\ lock_alarms' = Released(lock_alarms, t)
              /\ lock_registers' = Released(lock_registers, t)
              /\ k_pc' = [k_pc EXCEPT ![t] = "idle"]
              /\ UNCHANGED k_emits
    /\ UNCHANGED lock_by_name
    /\ UNCHANGED nonLockVars
\* evaluate_alarms runs under the write lock of the alarms and returns; the
\* loop breaks and process_raw returns.
LockedRawEvaluate(t) ==
    /\ k_pc[t] = "raw_evaluate"
    /\ HoldsWrite(lock_alarms, t)
    /\ lock_alarms' = Released(lock_alarms, t)
    /\ lock_registers' = Released(lock_registers, t)
    /\ k_pc' = [k_pc EXCEPT ![t] = "idle"]
    /\ k_emits' = [k_emits EXCEPT ![t] = FALSE]
    /\ UNCHANGED lock_by_name
    /\ UNCHANGED nonLockVars

\* ---- add_register ----
\* self.registers.write().await.insert(..)
AddRegisterBegin(t) ==
    /\ k_pc[t] = "idle"
    /\ lock_registers' = Request(lock_registers, t, TRUE)
    /\ k_pc' = [k_pc EXCEPT ![t] = "reg_registers"]
    /\ UNCHANGED <<lock_by_name, lock_alarms, k_emits>>
    /\ UNCHANGED nonLockVars
\* The guard is a temporary of the statement: it is dropped before
\* self.registers_by_name.write().await.insert(..)
AddRegisterByName(t) ==
    /\ k_pc[t] = "reg_registers"
    /\ HoldsWrite(lock_registers, t)
    /\ lock_registers' = Released(lock_registers, t)
    /\ lock_by_name' = Request(lock_by_name, t, TRUE)
    /\ k_pc' = [k_pc EXCEPT ![t] = "reg_by_name"]
    /\ UNCHANGED <<lock_alarms, k_emits>>
    /\ UNCHANGED nonLockVars
AddRegisterReturn(t) ==
    /\ k_pc[t] = "reg_by_name"
    /\ HoldsWrite(lock_by_name, t)
    /\ lock_by_name' = Released(lock_by_name, t)
    /\ k_pc' = [k_pc EXCEPT ![t] = "idle"]
    /\ UNCHANGED <<lock_registers, lock_alarms, k_emits>>
    /\ UNCHANGED nonLockVars

\* ---- add_alarm ----
\* self.alarms.write().await.insert(..)
AddAlarmBegin(t) ==
    /\ k_pc[t] = "idle"
    /\ lock_alarms' = Request(lock_alarms, t, TRUE)
    /\ k_pc' = [k_pc EXCEPT ![t] = "alarm_alarms"]
    /\ UNCHANGED <<lock_registers, lock_by_name, k_emits>>
    /\ UNCHANGED nonLockVars
AddAlarmReturn(t) ==
    /\ k_pc[t] = "alarm_alarms"
    /\ HoldsWrite(lock_alarms, t)
    /\ lock_alarms' = Released(lock_alarms, t)
    /\ k_pc' = [k_pc EXCEPT ![t] = "idle"]
    /\ UNCHANGED <<lock_registers, lock_by_name, k_emits>>
    /\ UNCHANGED nonLockVars

\* A call that is under way, or a lock, takes its next step.
LocksProgress ==
    \/ GrantRegisters
    \/ GrantByName
    \/ GrantAlarms
    \/ \E t \in LockTasks : LockedRawAlarms(t)
    \/ \E t \in LockTasks : LockedRawLoop(t)
    \/ \E t \in LockTasks : LockedRawEvaluate(t)
    \/ \E t \in LockTasks : AddRegisterByName(t)
    \/ \E t \in LockTasks : AddRegisterReturn(t)
    \/ \E t \in LockTasks : AddAlarmReturn(t)

LocksNext ==
    \/ \E t \in LockTasks, emits \in BOOLEAN : LockedRawBegin(t, emits)
    \/ \E t \in LockTasks : AddRegisterBegin(t)
    \/ \E t \in LockTasks : AddAlarmBegin(t)
    \/ LocksProgress

(***************************************************************************)
(* Error classification: error.rs                                          *)
(***************************************************************************)
\* The variants of IndustrialError other than ModbusException.
PlainErrorVariants ==
    {"ConnectionFailed", "ConnectionTimeout", "ConnectionRefused",
     "ConnectionReset", "NotConnected", "ResponseTimeout", "InvalidResponse",
     "TransactionMismatch", "CrcError", "InvalidConfig", "DeviceNotFound",
     "RegisterNotFound", "LimitExceeded", "SerialError", "FramingError",
     "ParityError", "GatewayNotRunning", "GatewayAlreadyRunning",
     "ShutdownError", "Internal", "Io", "ChannelSend", "ChannelReceive"}

\* The error values: the fields that is_recoverable does not read are left
\* out, except the function code of an exception.
ExceptionCodes == 0 .. MaxExceptionCode
ErrorValues ==
    [variant : PlainErrorVariants, function_code : {0}, exception_code : {0}]
    \cup [variant : {"ModbusException"},
          function_code :
              {read_function_code(rt) :
                  rt \in {"Holding", "Input", "Coil", "Discrete"}},
          exception_code : ExceptionCodes]

NoError == [variant |-> "none", function_code |-> 0, exception_code |-> 0]

NoVerdict == [returned |-> FALSE, recoverable |-> FALSE]

\* IndustrialError::is_recoverable
is_recoverable_MutantNoCrc(self) ==
    CASE self.variant = "ConnectionTimeout" -> TRUE
      [] self.variant = "ConnectionReset" -> TRUE
      [] self.variant = "ResponseTimeout" -> TRUE
      [] self.variant = "ModbusException" ->
             self.exception_code = 5 \/ self.exception_code = 6
      [] self.variant = "FramingError" -> TRUE
      [] self.variant = "ParityError" -> TRUE
      [] OTHER -> FALSE

is_recoverable(self) ==
    CASE self.variant = "ConnectionTimeout" -> TRUE
      [] self.variant = "ConnectionReset" -> TRUE
      [] self.variant = "ResponseTimeout" -> TRUE
      [] self.variant = "ModbusException" ->
             self.exception_code = 5 \/ self.exception_code = 6
      [] self.variant = "CrcError" -> TRUE
      [] self.variant = "FramingError" -> TRUE
      [] self.variant = "ParityError" -> TRUE
      [] OTHER -> FALSE

\* error_code has not been called.
NoCode == 0

\* IndustrialError::error_code; the sum 200 + exception_code is a u16 and
\* cannot overflow for a u8 exception code.
error_code(self) ==
    CASE self.variant = "ConnectionFailed" -> 100
      [] self.variant = "ConnectionTimeout" -> 101
      [] self.variant = "ConnectionRefused" -> 102
      [] self.variant = "ConnectionReset" -> 103
      [] self.variant = "NotConnected" -> 104
      [] self.variant = "ModbusException" -> 200 + self.exception_code
      [] self.variant = "ResponseTimeout" -> 210
      [] self.variant = "InvalidResponse" -> 211
      [] self.variant = "TransactionMismatch" -> 212
      [] self.variant = "CrcError" -> 213
      [] self.variant = "InvalidConfig" -> 300
      [] self.variant = "DeviceNotFound" -> 301
      [] self.variant = "RegisterNotFound" -> 302
      [] self.variant = "LimitExceeded" -> 303
      [] self.variant = "SerialError" -> 400
      [] self.variant = "FramingError" -> 401
      [] self.variant = "ParityError" -> 402
      [] self.variant = "GatewayNotRunning" -> 500
      [] self.variant = "GatewayAlreadyRunning" -> 501
      [] self.variant = "ShutdownError" -> 502
      [] self.variant = "Internal" -> 900
      [] self.variant = "Io" -> 901
      [] self.variant = "ChannelSend" -> 902
      [] self.variant = "ChannelReceive" -> 903

\* A caller asks for the telemetry code of the error it holds.
ErrorCode ==
    /\ err # NoError
    /\ err_code = NoCode
    /\ err_code' = error_code(err)
    /\ UNCHANGED <<err, err_out, gw_config, gw_built, gw_new, rd_args, rd_out>>
    /\ UNCHANGED nonCallVars

\* A caller asks whether the error it holds is recoverable.
IsRecoverable ==
    /\ err # NoError
    /\ ~err_out.returned
    /\ err_out' = [returned |-> TRUE, recoverable |-> is_recoverable(err)]
    /\ UNCHANGED <<err, err_code, gw_config, gw_built, gw_new, rd_args, rd_out>>
    /\ UNCHANGED nonCallVars

(***************************************************************************)
(* Configuration limits: config.rs, gateway/lite.rs                        *)
(***************************************************************************)
\* The configurations explored: whether the builder was given a gateway id,
\* the numbers of devices, registers and alarms (at and above each limit),
\* and whether every register names a configured device.
GatewayConfigs ==
    {c \in [gateway_id : BOOLEAN,
            devices : {0, MAX_DEVICES, MAX_DEVICES + 1},
            registers : {0, MAX_REGISTERS, MAX_REGISTERS + 1},
            alarms : {0, MAX_ALARMS, MAX_ALARMS + 1},
            devices_found : BOOLEAN] :
        /\ c.registers = 0 => c.devices_found
        /\ (c.devices = 0 /\ c.registers > 0) => ~c.devices_found}

NoConfig == [gateway_id |-> FALSE, devices |-> 0, registers |-> 0,
             alarms |-> 0, devices_found |-> TRUE]

LimitExceeded(limit_name, max, requested) ==
    ErrResult([type |-> "LimitExceeded", limit_name |-> limit_name,
               max |-> max, requested |-> requested])

\* GatewayConfig::validate
validate(self) ==
    IF self.devices > 10
      THEN LimitExceeded("devices", 10, self.devices)
      ELSE IF self.registers > 256
             THEN LimitExceeded("registers", 256, self.registers)
             ELSE IF ~self.devices_found
                    THEN ErrResult([type |-> "DeviceNotFound"])
                    ELSE Ok

\* GatewayConfigBuilder::build
build(self) ==
    IF ~self.gateway_id
      THEN ErrResult([type |-> "InvalidConfig"])
      ELSE validate(self)

\* The limit checks of GatewayLite::new; nothing after them fails.
GatewayLiteNew(cfg) ==
    IF cfg.devices > MAX_DEVICES
      THEN LimitExceeded("devices", MAX_DEVICES, cfg.devices)
      ELSE IF cfg.registers > MAX_REGISTERS
             THEN LimitExceeded("registers", MAX_REGISTERS, cfg.registers)
             ELSE IF cfg.alarms > MAX_ALARMS
                    THEN LimitExceeded("alarms", MAX_ALARMS, cfg.alarms)
                    ELSE Ok

\* builder.build()
Build ==
    /\ gw_config # NoConfig
    /\ gw_built = NoResult
    /\ gw_built' = build(gw_config)
    /\ UNCHANGED <<err, err_out, err_code, gw_config, gw_new, rd_args, rd_out>>
    /\ UNCHANGED nonCallVars

\* GatewayLite::new(config), for a configuration that build returned or that
\* was put together field by field.
New ==
    /\ gw_config # NoConfig
    /\ gw_new = NoResult
    /\ gw_config.gateway_id
    /\ gw_new' = GatewayLiteNew(gw_config)
    /\ UNCHANGED <<err, err_out, err_code, gw_config, gw_built, rd_args, rd_out>>
    /\ UNCHANGED nonCallVars

(***************************************************************************)
(* Reconnection delay: transport/tcp.rs                                    *)
(***************************************************************************)
\* reconnect_delay in seconds, and the number of the failed attempt.
ReconnectDelayArgs ==
    [reconnect_delay : 1 .. MaxReconnectDelay, attempts : 1 .. MaxDelayAttempts]

NoDelayArgs == [reconnect_delay |-> 0, attempts |-> 0]

\* 1.5f64.powi(attempts as i32 - 1) as u32: the power is exact in an f64 and
\* the cast drops its fraction.
PowerFactor(attempts) == (3 ^ (attempts - 1)) \div (2 ^ (attempts - 1))

\* let delay = reconnect_delay * (...); let delay = delay.min(30 s)
ReconnectDelay(reconnect_delay, attempts) ==
    Min(reconnect_delay * PowerFactor(attempts), ReconnectDelayCap)

\* reconnect(): the sleep after a failed attempt that was not the last.
ReconnectSleep ==
    /\ rd_args # NoDelayArgs
    /\ rd_out = None
    /\ rd_out' = Some(ReconnectDelay(rd_args.reconnect_delay, rd_args.attempts))
    /\ UNCHANGED <<err, err_out, err_code, gw_config, gw_built, gw_new, rd_args>>
    /\ UNCHANGED nonCallVars

CallsInitWith(e, c, d) ==
    /\ err = e
    /\ err_out = NoVerdict
    /\ err_code = NoCode
    /\ gw_config = c
    /\ gw_built = NoResult
    /\ gw_new = NoResult
    /\ rd_args = d
    /\ rd_out = None

CallsIdle == CallsInitWith(NoError, NoConfig, NoDelayArgs)

LocksIdle == LocksInit

vars == <<modbusVars, tcpVars, schedVars, emitVars, bridgeVars, callVars,
          lockVars>>

BridgeIdle == BridgeInitWith(DefaultBridgeConfig, TRUE)

EmitIdle == EmitterInitWith(DefaultEmitterSetup)

SchedIdle == SchedInitWith(DefaultSchedulerConfig)

TcpIdle == TcpInitWith(DefaultMaxReconnectAttempts)

InitModbus ==
    ModbusInit /\ TcpIdle /\ SchedIdle /\ EmitIdle /\ BridgeIdle /\ CallsIdle
    /\ LocksIdle

SpecModbus == InitModbus /\ [][ModbusNext]_vars

SpecModbusConc == InitModbus /\ [][ModbusConcNext]_vars

TcpInit == \E n \in {0, ReconnectLimit} : TcpInitWith(n)

InitTcp ==
    ModbusInit /\ TcpInit /\ SchedIdle /\ EmitIdle /\ BridgeIdle /\ CallsIdle
    /\ LocksIdle

SpecTcp == InitTcp /\ [][TcpNext]_vars

SpecTcpConnect == InitTcp /\ [][TcpConnectNext]_vars

TcpEventsInit == \E n \in {0, ReconnectLimit} : TcpInitEvents(n, TRUE)

InitTcpEvents ==
    ModbusInit /\ TcpEventsInit /\ SchedIdle /\ EmitIdle /\ BridgeIdle /\ CallsIdle
    /\ LocksIdle

SpecTcpEvents == InitTcpEvents /\ [][TcpEventsNext]_vars

SchedInit == \E c \in SchedulerConfigs : SchedInitWith(c)

InitSched ==
    ModbusInit /\ TcpIdle /\ SchedInit /\ EmitIdle /\ BridgeIdle /\ CallsIdle
    /\ LocksIdle

SpecBackoff == InitSched /\ [][BackoffNext]_vars

\* The configurations that differ in adaptive scheduling only.
FeedbackInit ==
    \E adaptive \in BOOLEAN :
        SchedInitWith([DefaultSchedulerConfig EXCEPT !.adaptive_enabled = adaptive])

InitFeedback ==
    ModbusInit /\ TcpIdle /\ FeedbackInit /\ EmitIdle /\ BridgeIdle /\ CallsIdle
    /\ LocksIdle

SpecFeedback == InitFeedback /\ [][FeedbackNext]_vars

\* The configurations that differ in the rate limit only.
RateInit ==
    \E rate \in Rates :
        SchedInitWith([DefaultSchedulerConfig EXCEPT !.max_polls_per_second = rate])

InitRate ==
    ModbusInit /\ TcpIdle /\ RateInit /\ EmitIdle /\ BridgeIdle /\ CallsIdle
    /\ LocksIdle

SpecSched == InitRate /\ [][SchedNext]_vars

\* The run loop next to a host that registers its polls, then removes polls
\* and stops the scheduler at any time.
LifecycleNext ==
    \/ \E id \in PollIds, reg \in RegisterConfigs :
           Configure(id, reg.poll_interval_ms, reg.priority)
    \/ AddPollStatus
    \/ AddPollPush
    \/ RemovePollNext
    \/ RunNext
    \/ Stop
    \/ Tick

SpecLifecycle == InitRate /\ [][LifecycleNext]_vars

\* The run loop next to a host that registers its polls, then disables and
\* enables them at any time.
EnableNext ==
    \/ \E id \in PollIds, reg \in RegisterConfigs :
           Configure(id, reg.poll_interval_ms, reg.priority)
    \/ AddPollStatus
    \/ AddPollPush
    \/ \E id \in PollIds, enabled \in BOOLEAN : SetEnabled(id, enabled)
    \/ RunNext
    \/ Tick

SpecEnable == InitRate /\ [][EnableNext]_vars

EmitterInit == \E setup \in EmitterSetups : EmitterInitWith(setup)

InitEmitter ==
    ModbusInit /\ TcpIdle /\ SchedIdle /\ EmitterInit /\ BridgeIdle /\ CallsIdle
    /\ LocksIdle

SpecEmitter == InitEmitter /\ [][EmitterNext]_vars

SpecEmitterConc == InitEmitter /\ [][EmitterConcNext]_vars

AlarmsInit == \E setup \in AlarmSetups : EmitterInitWith(setup)

InitAlarms ==
    ModbusInit /\ TcpIdle /\ SchedIdle /\ AlarmsInit /\ BridgeIdle /\ CallsIdle
    /\ LocksIdle

SpecAlarms == InitAlarms /\ [][EmitterNext]_vars

BridgeInit ==
    \E cfg \in BridgeConfigs, rx_open \in BOOLEAN : BridgeInitWith(cfg, rx_open)

InitBridge ==
    ModbusInit /\ TcpIdle /\ SchedIdle /\ EmitIdle /\ BridgeInit /\ CallsIdle
    /\ LocksIdle

SpecBridge == InitBridge /\ [][BridgeNext]_vars

SpecBridgeConc == InitBridge /\ [][BridgeConcNext]_vars

\* A bridge whose output channel holds FullCapacity records.
BridgeFullInit ==
    \E cfg \in BridgeConfigs : BridgeInitChannel(cfg, TRUE, FullCapacity)

InitBridgeFull ==
    ModbusInit /\ TcpIdle /\ SchedIdle /\ EmitIdle /\ BridgeFullInit /\ CallsIdle
    /\ LocksIdle

SpecBridgeFull == InitBridgeFull /\ [][BridgeFullNext]_vars

Quiet ==
    ModbusInit /\ TcpIdle /\ SchedIdle /\ EmitIdle /\ BridgeIdle /\ LocksIdle

ErrorInit == \E e \in ErrorValues : CallsInitWith(e, NoConfig, NoDelayArgs)

InitError == Quiet /\ ErrorInit

ErrorNext == IsRecoverable \/ ErrorCode

SpecError == InitError /\ [][ErrorNext]_vars

ConfigInit == \E c \in GatewayConfigs : CallsInitWith(NoError, c, NoDelayArgs)

InitConfig == Quiet /\ ConfigInit

ConfigNext == Build \/ New

SpecConfig == InitConfig /\ [][ConfigNext]_vars

DelayInit == \E d \in ReconnectDelayArgs : CallsInitWith(NoError, NoConfig, d)

InitDelay == Quiet /\ DelayInit

DelayNext == ReconnectSleep

SpecDelay == InitDelay /\ [][DelayNext]_vars

(***************************************************************************)
(* Properties of the protocol engine.                                      *)
(***************************************************************************)
Allocated(t) == m_pc[t] \in {"track", "await", "done"}

\* C1: next_transaction_id never returns 0, also after the counter has
\* wrapped and when several requests allocate ids concurrently.
C1_NeverReturnsZero == \A t \in Readers : Allocated(t) => m_tid[t] # 0

\* C2: read() never allocates a transaction id that is at that moment still
\* a key of the in-flight table.
C2_NoInflightReuse ==
    \A t \in Readers : m_pc[t] = "track" => m_tid[t] \notin DOMAIN inflight

\* The reader has returned from a read() whose send_receive returned bytes
\* that carry a complete header with protocol id zero.
GotResponse(t) == m_pc[t] = "done" /\ Len(m_resp[t]) >= 2
HeaderAccepted(t) ==
    /\ Len(m_resp[t]) >= 8
    /\ m_resp[t][3] = 0
    /\ m_resp[t][4] = 0
ResponseId(t) == m_resp[t][1] * 256 + m_resp[t][2]
EventsOfType(t, ty) == {i \in 1 .. Len(m_events[t]) : m_events[t][i].type = ty}

IsExceptionResponse(t) ==
    /\ GotResponse(t) /\ HeaderAccepted(t) /\ ResponseId(t) = m_tid[t]
    /\ Len(m_resp[t]) >= 9
    /\ m_resp[t][8] >= 128

InWindow(t) == t_pc[t] = "sr_recv"

\* C3: concurrent send_receive callers are excluded from each other's
\* send-then-receive window, so that (no timeout or reset having left an
\* answer unread) no caller reads the response to another caller's frame.
C3_WindowExclusive ==
    /\ \A a, b \in TcpTasks : (InWindow(a) /\ InWindow(b)) => a = b
    /\ t_faults = 0 =>
          \A t \in TcpTasks :
              (t_op[t] = "send_receive" /\ t_pc[t] = "done" /\ t_result[t] = Ok)
                  => t_got[t] = t

ConnectReturned(t) == t_op[t] = "connect" /\ t_pc[t] = "done"
AttemptEnds(t) == t_pc[t] = "try" /\ t_pc'[t] \notin {"try", "store"}

\* C6: a failed initial attempt leads into reconnect(), which sets
\* Reconnecting; with max_reconnect_attempts = N > 0 the N-th failed
\* reconnection attempt sets Error and makes connect() return that attempt's
\* failure, and attempt N + 1 is never made; with max_reconnect_attempts = 0
\* the state is never Error and connect() returns only after a success.
C6_StateInv ==
    /\ \A t \in TcpTasks :
          /\ max_reconnect_attempts > 0 => t_attempts[t] <= max_reconnect_attempts
          /\ (ConnectReturned(t) /\ t_result[t] # Ok) =>
                /\ max_reconnect_attempts > 0
                /\ t_attempts[t] = max_reconnect_attempts
                /\ t_result[t] = [kind |-> "Err", err |-> [type |-> t_lasterr[t]]]
    /\ max_reconnect_attempts = 0 => state # "Error"

C6_Step ==
    \A t \in TcpTasks :
        /\ (AttemptEnds(t) /\ t_attempts[t] = 0) => t_pc'[t] = "r_begin"
        /\ (t_pc[t] = "r_begin" /\ t_pc'[t] # "r_begin") =>
              (state' = "Reconnecting" /\ t_pc'[t] = "r_loop")
        /\ (AttemptEnds(t) /\ t_attempts[t] > 0) =>
              IF max_reconnect_attempts > 0 /\ t_attempts[t] = max_reconnect_attempts
              THEN /\ state' = "Error"
                   /\ t_pc'[t] = "done"
                   /\ t_result'[t] = [kind |-> "Err", err |-> [type |-> t_lasterr'[t]]]
              ELSE /\ t_pc'[t] = "r_loop"
                   /\ state' = state

C6_ReconnectPolicy == []C6_StateInv /\ [][C6_Step]_vars

\* connect() has returned the failure of the N-th reconnection attempt.
C6_Witness ==
    \E t \in TcpTasks :
        /\ ConnectReturned(t) /\ t_result[t] # Ok
        /\ max_reconnect_attempts = ReconnectLimit
        /\ t_attempts[t] = ReconnectLimit
        /\ state = "Error"

\* C7: once disconnect() has returned, and until connect() is called again,
\* the transport holds no session and its state is Disconnected.
C7_StaysDisconnected == t_quiet => (~stream /\ state = "Disconnected")


(***************************************************************************)
(* Properties of the poll scheduler.                                       *)
(***************************************************************************)
TriggerIndices == 1 .. Len(triggers)

\* Triggers i and j are consecutive triggers of one poll id.
ConsecutiveForPoll(i, j) ==
    /\ i < j
    /\ triggers[i].poll_id = triggers[j].poll_id
    /\ \A k \in (i + 1) .. (j - 1) : triggers[k].poll_id # triggers[i].poll_id

\* C8: for one poll id, the trigger that follows a trigger at actual time t
\* has an actual time of at least t plus the poll's interval, taken as the
\* interval of the item the loop cloned for the earlier trigger.  Two
\* triggers with an add_poll call for their id between them are not compared.
C8_IntervalRespected ==
    \A i, j \in TriggerIndices :
        (ConsecutiveForPoll(i, j) /\ g_dispatch[i].epoch = g_dispatch[j].epoch)
            => triggers[j].actual_time_ns >=
                   triggers[i].actual_time_ns + g_dispatch[i].interval_ms * NsPerMs

MinGap == NsPerSecond \div config.max_polls_per_second

\* The triggers, from trigger i on, of the second that begins with trigger i.
WindowFrom(i) ==
    {j \in TriggerIndices :
        /\ j >= i
        /\ triggers[j].actual_time_ns < triggers[i].actual_time_ns + NsPerSecond}

CeilDiv(a, b) == (a + b - 1) \div b

GapRespected ==
    \A i \in TriggerIndices \ {Len(triggers)} :
        triggers[i + 1].actual_time_ns - triggers[i].actual_time_ns >= MinGap

Settled(id) ==
    /\ id \in DOMAIN items
    /\ id \in DOMAIN status
    /\ h_item.poll_id # id

RECURSIVE IteratedBackoff(_, _)
\* k times: multiply by the factor, drop the fraction, cap.
IteratedBackoff(base, k) ==
    IF k = 0
      THEN base
      ELSE LET grown == (IteratedBackoff(base, k - 1) * BackoffNum) \div BackoffDen
           IN IF grown < config.max_backoff_interval_ms
                THEN grown
                ELSE config.max_backoff_interval_ms

\* min(max_backoff_interval, base * factor^k), rounded down to a whole
\* number of milliseconds.
ClosedFormBackoff(base, k) ==
    LET grown == (base * BackoffNum ^ k) \div (BackoffDen ^ k)
    IN IF grown < config.max_backoff_interval_ms
         THEN grown
         ELSE config.max_backoff_interval_ms

C11_StopEndsLoop ==
    (g_stop_called /\ r_pc = "top") => ~running

\* C12: no PollTrigger is emitted for a poll id after remove_poll for it has
\* returned and before add_poll is called for it again.
C12_NoTriggerAfterRemove ==
    \A i \in TriggerIndices : ~g_dispatch[i].removed

\* ---- Emitter properties ----

\* The indices of a call's words whose address has a register.
CoveredIndices(args) ==
    {i \in 1 .. Len(args.values) : args.start_address + (i - 1) \in Addresses}

\* C13: process_raw handles every index of the words: with change detection
\* off, a call that has returned has sent one value event for every word
\* whose address has a register.
C13_EveryIndexHandled ==
    \A t \in EmitTasks :
        (e_pc[t] = "returned" /\ ~e_setup.emit_on_change)
            => Len(e_out[t]) = Cardinality(CoveredIndices(e_args[t]))

\* C14: with emit_on_change a value event is sent only when the register has
\* sent none before or the value differs from the value of the event sent
\* last by more than change_threshold; a word that is not sent is within the
\* threshold of the value sent last; last_value is the value of the event
\* sent last.
C14_EmitOnChange ==
    /\ \A a \in Addresses : registers[a].last_value = g_last_event[a]
    /\ \A t \in EmitTasks : \A k \in DOMAIN e_out[t] :
           (e_setup.emit_on_change /\ e_out[t][k].previous.some)
               => Abs(e_out[t][k].value - e_out[t][k].previous.v)
                      > e_setup.change_threshold
    /\ \A t \in EmitTasks :
           (/\ e_pc[t] = "returned"
            /\ e_out[t] = <<>>
            /\ Len(e_args[t].values) = 1
            /\ e_args[t].start_address \in Addresses)
               => /\ e_setup.emit_on_change
                  /\ g_last_event[e_args[t].start_address].some
                  /\ Abs(ScaledWord(e_args[t].start_address,
                                    e_args[t].values[1])
                         - g_last_event[e_args[t].start_address].v)
                        <= e_setup.change_threshold

\* A call that repeats the value sent last has returned without an event.
C14_Witness ==
    /\ e_setup.emit_on_change
    /\ e_pc[1] = "returned"
    /\ e_args[1] = [start_address |-> 100, values |-> <<85>>]
    /\ g_last_event[100] = Some(85)
    /\ e_out[1] = <<>>

\* C15: with debounce_ms > 0 the timestamps of any two transitions of the
\* alarm are at least debounce_ms milliseconds apart, whatever the order in
\* which concurrent calls stamp and take the lock.
C15_DebounceSpacing ==
    \A t \in EmitTasks :
        e_setup.alarm.debounce_ms > 0
            => \A k \in DOMAIN e_eval[t].alarm_events :
                   \A earlier \in e_eval[t].earlier :
                       Abs(e_eval[t].alarm_events[k].timestamp_ns - earlier)
                           >= e_setup.alarm.debounce_ms * NsPerMs

\* A second transition of a debounced alarm.
C15_Witness ==
    /\ e_setup.alarm.debounce_ms > 0
    /\ \E t \in EmitTasks :
           /\ e_eval[t].alarm_events # <<>>
           /\ e_eval[t].earlier # {}

\* The value an active alarm compares with.
ClearLevel == e_setup.alarm.threshold_hi - e_setup.alarm.hysteresis

\* C16 as stated: an active GreaterThan or GreaterOrEqual alarm returns to
\* Normal only on a value strictly less than hi - h.
C16_ClearsOnlyBelow ==
    \A t \in EmitTasks :
        (e_eval[t].evaluated /\ e_eval[t].was_active /\ ~e_eval[t].now_active)
            => e_eval[t].value < ClearLevel

\* C16: an active GreaterOrEqual alarm stays Active exactly on the evaluated
\* values >= hi - h, an active GreaterThan alarm exactly on the evaluated
\* values > hi - h, so that the value hi - h itself clears it.
C16_Hysteresis ==
    \A t \in EmitTasks :
        (e_eval[t].evaluated /\ e_eval[t].was_active)
            => (e_eval[t].now_active <=>
                    IF e_setup.alarm.condition = "GreaterThan"
                      THEN e_eval[t].value > ClearLevel
                      ELSE e_eval[t].value >= ClearLevel)

\* The value 79 was evaluated on an active alarm with hi = 80 and h = 2 and
\* did not clear it.
C16_Witness ==
    \E t \in EmitTasks :
        /\ e_eval[t].evaluated
        /\ e_eval[t].was_active
        /\ e_eval[t].value = 79
        /\ e_eval[t].now_active


\* ---- Bridge properties ----

\* No process or flush call is in progress.
Quiescent == \A t \in BridgeTasks : b_pc[t] = "idle"

\* C17: whenever no process or flush call is in progress, events_received =
\* events_emitted + events_filtered + events_sampled_out + the number of
\* buffered records.
C17_CounterBalance ==
    Quiescent
        => metrics.events_received =
               metrics.events_emitted + metrics.events_filtered
               + metrics.events_sampled_out + Len(buffer)

\* Records were flushed and a later record is buffered, with no call in
\* progress.
C17_Witness ==
    /\ Quiescent
    /\ metrics.events_emitted > 0
    /\ buffer # <<>>

\* C18: every batch that a flush called by process takes holds exactly
\* batch_size records.
C18_AutoBatchExact ==
    \A t \in BridgeTasks :
        (b_pc[t] \in {"taken", "flushed"} /\ b_auto[t])
            => Len(b_events[t]) = b_config.batch_size

\* The records the bridge holds or has forwarded.
BridgeRecords ==
    Range(buffer) \cup Range(output)
    \cup UNION {Range(b_events[t]) : t \in BridgeTasks}
    \cup {b_lex[t] : t \in {u \in BridgeTasks : b_pc[u] = "built"}}

C19_StateInv ==
    \A rec \in BridgeRecords : rec.severity >= b_config.severity_filter

C19_Step ==
    \A t \in BridgeTasks :
        (/\ b_pc[t] = "received"
         /\ b_pc'[t] # "received"
         /\ SeverityOf(b_event[t]) < b_config.severity_filter)
            => /\ metrics'.events_filtered = metrics.events_filtered + 1
               /\ lex_sequence' = lex_sequence
               /\ buffer' = buffer
               /\ output' = output
               /\ b_pc'[t] = "idle"

\* C19: no record with a severity below severity_filter is buffered or
\* forwarded; an event below the filter increments events_filtered, consumes
\* no sequence number, leaves the buffer unchanged and ends the call.
C19_SeverityFilter == []C19_StateInv /\ [][C19_Step]_vars

\* An event was filtered and a record is buffered.
C19_Witness ==
    /\ metrics.events_filtered > 0
    /\ buffer # <<>>

\* C20: when a flush that took records has sent, the output channel has
\* received every record it took, in buffer order.
C20_FlushForwardsAll ==
    \A t \in BridgeTasks :
        b_pc[t] = "flushed"
            => /\ Len(output) >= b_before[t] + Len(b_events[t])
               /\ SubSeq(output, b_before[t] + 1,
                         b_before[t] + Len(b_events[t])) = b_events[t]


(***************************************************************************)
(* Further properties of the transport.                                    *)
(***************************************************************************)

\* C23: when send_receive has failed on a session with ConnectionReset or a
\* timeout, the transport is not left in state Connected with that session.
C23_FailureLeavesConnected ==
    \A t \in TcpTasks :
        (/\ t_op[t] = "send_receive"
         /\ t_pc[t] = "done"
         /\ t_result[t].kind = "Err"
         /\ t_result[t].err.type \in SendReceiveErrors)
            => ~(state = "Connected" /\ stream)


\* C25: the StateChange events sent are the changes of the state, in order:
\* the first event leaves Disconnected, every event's old_state is the
\* new_state of the event before it, no event has old_state = new_state, and
\* when no event is left to send the last event's new_state is the state.
C25_EventsFollowState ==
    /\ \A i \in DOMAIN state_events :
           /\ state_events[i].old_state # state_events[i].new_state
           /\ state_events[i].old_state =
                  IF i = 1 THEN "Disconnected" ELSE state_events[i - 1].new_state
    /\ (\A t \in TcpTasks : Sent(t))
           => state = IF state_events = <<>>
                        THEN "Disconnected"
                        ELSE state_events[Len(state_events)].new_state


(***************************************************************************)
(* Properties of the error classification, the configuration limits and    *)
(* the reconnection delay.                                                 *)
(***************************************************************************)

\* C21 as stated: is_recoverable returns true exactly for timeouts,
\* connection resets, framing and parity faults and exceptions 5 and 6.
C21_RecoverableAsListed ==
    err_out.returned
        => (err_out.recoverable <=>
               \/ err.variant \in {"ConnectionTimeout", "ResponseTimeout",
                                   "ConnectionReset", "FramingError",
                                   "ParityError"}
               \/ (err.variant = "ModbusException"
                   /\ err.exception_code \in {5, 6}))

\* C21: is_recoverable returns true exactly for timeouts, connection resets,
\* CRC, framing and parity faults and exceptions 5 and 6, and false for every
\* other error value.
C21_Recoverable ==
    err_out.returned
        => (err_out.recoverable <=>
               \/ err.variant \in {"ConnectionTimeout", "ResponseTimeout",
                                   "ConnectionReset", "CrcError",
                                   "FramingError", "ParityError"}
               \/ (err.variant = "ModbusException"
                   /\ err.exception_code \in {5, 6}))

\* A CRC error was classified as recoverable.
C21_Witness ==
    /\ err.variant = "CrcError"
    /\ err_out.returned
    /\ err_out.recoverable

\* C22: a configuration above a limit is rejected with LimitExceeded by
\* build (validate) and by GatewayLite::new.
C22_LimitsEnforced ==
    LET above ==
            \/ gw_config.devices > MAX_DEVICES
            \/ gw_config.registers > MAX_REGISTERS
            \/ gw_config.alarms > MAX_ALARMS
    IN /\ (gw_built # NoResult /\ gw_config.gateway_id /\ above)
              => (gw_built.kind = "Err" /\ gw_built.err.type = "LimitExceeded")
       /\ (gw_new # NoResult /\ above)
              => (gw_new.kind = "Err" /\ gw_new.err.type = "LimitExceeded")

\* C24: the wait after the n-th failed reconnection attempt is
\* min(30 s, reconnect_delay * 1.5^(n-1)); both sides are multiplied by
\* 2^(n-1).
C24_DelayFormula ==
    rd_out.some
        => rd_out.v * (2 ^ (rd_args.attempts - 1)) =
               Min(ReconnectDelayCap * (2 ^ (rd_args.attempts - 1)),
                   rd_args.reconnect_delay * (3 ^ (rd_args.attempts - 1)))


(***************************************************************************)
(* Further properties of the poll scheduler.                               *)
(***************************************************************************)

\* C26: of two entries with equal next_time_ns and equal priority the one
\* with the smaller poll_id is popped first: the entry just popped leaves no
\* such entry with a smaller poll_id behind.
C26_PollIdTieBreak ==
    r_pc = "lookup"
        => \A f \in BagToSet(schedule) :
               ~(/\ f.next_time_ns = r_entry.next_time_ns
                 /\ f.priority = r_entry.priority
                 /\ f.poll_id < r_entry.poll_id)


\* What poll_complete may touch of the poll it names: the counters, the
\* latency average and the current interval of the status entry, and the
\* current interval of the item.
SameButFeedback(s, t) ==
    t = [s EXCEPT !.polls_total = t.polls_total,
                  !.polls_success = t.polls_success,
                  !.polls_failed = t.polls_failed,
                  !.consecutive_failures = t.consecutive_failures,
                  !.avg_latency_us = t.avg_latency_us,
                  !.current_interval_ms = t.current_interval_ms]

SameButInterval(s, t) ==
    t = [s EXCEPT !.current_interval_ms = t.current_interval_ms]

\* C27: a poll_complete call, whatever its sequence number, leaves the heap,
\* the sets of items and status entries, every other poll's item and status
\* and the named poll's next_poll_ns and last_poll_ns unchanged; of the named
\* poll it changes at most the counters, the latency average and the current
\* interval; for a poll id without status entry it changes nothing at all.
C27_CompletionFrame ==
    [][g_complete' # g_complete =>
          LET id == g_complete'.poll_id
          IN /\ UNCHANGED <<config, schedule, sequence, running,
                            trigger_rx_open, triggers, clock,
                            min_interval_ns, last_poll_ns>>
             /\ DOMAIN status' = DOMAIN status
             /\ DOMAIN items' = DOMAIN items
             /\ \A other \in DOMAIN status \ {id} : status'[other] = status[other]
             /\ \A other \in DOMAIN items \ {id} : items'[other] = items[other]
             /\ id \in DOMAIN status =>
                    /\ SameButFeedback(status[id], status'[id])
                    /\ status'[id].next_poll_ns = status[id].next_poll_ns
                    /\ status'[id].last_poll_ns = status[id].last_poll_ns
             /\ id \in DOMAIN items => SameButInterval(items[id], items'[id])
             /\ id \notin DOMAIN status => UNCHANGED <<status, items>>]_vars

\* The last completion carried a stale sequence number and named a poll
\* whose failure was counted, with latency, and whose interval has grown,
\* while another poll is scheduled that no completion named.
C27_Witness ==
    /\ g_complete.sequence_number < sequence
    /\ g_complete.poll_id \in DOMAIN status
    /\ g_complete.poll_id \in DOMAIN items
    /\ LET s == status[g_complete.poll_id]
       IN /\ s.polls_failed > 0
          /\ s.avg_latency_us > 0
          /\ s.current_interval_ms > items[g_complete.poll_id].base_interval_ms
    /\ \E other \in DOMAIN status \ {g_complete.poll_id} :
           status[other].polls_total = 0


\* The AlarmCondition variants whose comparison uses the thresholds that
\* move with the alarm's state.
HysteresisConditions ==
    {"GreaterThan", "GreaterOrEqual", "LessThan", "LessOrEqual", "Between",
     "Outside"}

\* C28: for an alarm whose condition uses hysteresis, with hysteresis > 0,
\* an evaluation of an Active alarm on a value that would activate it from
\* Normal leaves it Active.
C28_ActiveCoversTrigger ==
    \A t \in EmitTasks :
        (/\ e_eval[t].evaluated
         /\ e_eval[t].was_active
         /\ e_setup.alarm.condition \in HysteresisConditions
         /\ e_setup.alarm.hysteresis > 0
         /\ evaluate_condition(e_eval[t].value, e_setup.alarm, FALSE))
        => e_eval[t].now_active


\* The words of a call that map to the register the alarm is bound to, as
\* scaled values.
AlarmRegisterValues(t) ==
    {ScaledWord(e_args[t].start_address + (i - 1), e_args[t].values[i]) :
        i \in {j \in DOMAIN e_args[t].values :
                  /\ e_args[t].start_address + (j - 1) \in Addresses
                  /\ RegisterTable[e_args[t].start_address + (j - 1)].name =
                         e_setup.alarm.register_name}}

\* C29: when process_raw returns, an enabled alarm that is outside its
\* debounce window at the call's timestamp is Active if a word of the call
\* maps to its register with a value that satisfies its condition, also when
\* no value event was sent for that word (in which case the alarm's state
\* and debounce window are those from before the call).
C29_AlarmsSeeEveryWord ==
    (/\ e_pc[1] = "returned"
     /\ e_setup.alarm.enabled
     /\ ~e_eval[1].evaluated
     /\ ~Debounced(e_ts[1], alarms.debounce_until_ns))
    => \A value \in AlarmRegisterValues(1) :
           evaluate_condition(value, e_setup.alarm, FALSE)
               => alarms.state = "Active"


\* C30: the stored state of the alarm is Normal or Active; the alarm events
\* sent so far carry Active, Normal, Active, ... in this order, and the last
\* of them carries the stored state; an evaluation sends one event, with
\* the new state, when it changes the state and none otherwise; a disabled
\* alarm stays Normal and sends nothing.
C30_AlarmEvents ==
    /\ alarms.state \in {"Normal", "Active"}
    /\ \A i \in DOMAIN g_alarm_states :
           g_alarm_states[i] = IF i % 2 = 1 THEN "Active" ELSE "Normal"
    /\ alarms.state = IF g_alarm_states = <<>>
                        THEN "Normal"
                        ELSE g_alarm_states[Len(g_alarm_states)]
    /\ \A t \in EmitTasks :
           /\ Len(e_eval[t].alarm_events) =
                  IF e_eval[t].evaluated
                     /\ e_eval[t].was_active # e_eval[t].now_active
                    THEN 1
                    ELSE 0
           /\ \A e \in Range(e_eval[t].alarm_events) :
                  e.state = IF e_eval[t].now_active THEN "Active" ELSE "Normal"
    /\ ~e_setup.alarm.enabled =>
           /\ alarms.state = "Normal"
           /\ g_alarm_states = <<>>

\* An alarm that was raised and cleared again, the clearing evaluation having
\* just sent its event.
C30_Witness ==
    /\ g_alarm_states = <<"Active", "Normal">>
    /\ e_eval[1].evaluated
    /\ e_eval[1].was_active
    /\ Len(e_eval[1].alarm_events) = 1

\* A disabled alarm whose register received a word that satisfies its
\* condition.
C30_DisabledSeen ==
    /\ ~e_setup.alarm.enabled
    /\ e_pc[1] = "returned"
    /\ \E value \in AlarmRegisterValues(1) :
           evaluate_condition(value, e_setup.alarm, FALSE)


\* The values rand::random::<f32>() can return.
DrawsOfRandom == {random}

\* C31: a Debug event that passed the severity filter of a bridge with
\* sampling_rate < 1.0 is dropped or buffered by a random draw in [0,1)
\* compared with the rate.  Some number of [0,1) is above every rate below
\* 1.0, so for such an event the draw the bridge makes can come out above
\* the rate, and the event can be sampled out.
C31_DrawCanExceedRate ==
    \A t \in BridgeTasks :
        (/\ b_pc[t] = "received"
         /\ SeverityOf(b_event[t]) = Debug
         /\ ~FilteredOut(Debug)
         /\ b_config.sampling_rate < SamplingOne)
        => \E r \in DrawsOfRandom : r > b_config.sampling_rate


\* C32: no flush is ever waiting inside a send for the consumer of the
\* output channel to make room; a record that finds the channel full is
\* dropped and the call goes on.
C32_NeverWaitsForConsumer ==
    \A t \in BridgeTasks : b_pc[t] # "sending"


\* The next step of a bridge call that is under way.
BridgeStep(t) ==
    \/ ProcessFilter(t)
    \/ ProcessPush(t)
    \/ FlushTake(t)
    \/ FlushSend(t)
    \/ FlushReturn(t)

C34_ReadNeverAborts ==
    \A t \in Readers : m_result[t] # Panic


InitLocks == Quiet /\ CallsIdle

SpecLocks == InitLocks /\ [][LocksNext]_vars

\* C35: whenever a process_raw, add_register or add_alarm call is under
\* way, some call or lock has a next step; a process_raw call that waits for
\* or holds a guard of the alarm map holds the write guard of the register
\* map; and no task waits for the alarm map while it holds a guard of it.
C35_NoDeadlock ==
    /\ (\E t \in LockTasks : k_pc[t] # "idle") => ENABLED LocksProgress
    /\ \A t \in LockTasks :
           k_pc[t] \in {"raw_alarms", "raw_evaluate"}
               => HoldsWrite(lock_registers, t)
    /\ \A i \in DOMAIN lock_alarms.queue :
           /\ ~HoldsRead(lock_alarms, lock_alarms.queue[i].task)
           /\ ~HoldsWrite(lock_alarms, lock_alarms.queue[i].task)

\* process_raw has dropped its read guard of the alarm map and waits for the
\* write lock behind an add_alarm call that asked while the guard was held.
C35_Witness ==
    /\ Len(lock_alarms.queue) = 2
    /\ lock_alarms.readers = {}
    /\ lock_alarms.writer = 0
    /\ k_pc[lock_alarms.queue[1].task] = "alarm_alarms"
    /\ k_pc[lock_alarms.queue[2].task] = "raw_evaluate"


\* C36: a poll that is registered and enabled keeps its place in the
\* schedule: its entry is in the heap, or the loop has popped it and is
\* about to trigger and reschedule it, whatever happened to the entry while
\* the poll was disabled.
C36_EnabledPollIsScheduled ==
    \A id \in PollIds :
        (Settled(id) /\ items[id].enabled)
            => \/ \E e \in BagToSet(schedule) : e.poll_id = id
               \/ r_entry.poll_id = id


\* C37: the triggers run() has sent are those the holder of the receiver
\* returned by PollScheduler::new can receive, in the order they were sent.
C37_ReturnedReceiverGetsTriggers ==
    Receivable = triggers


\* C38: when read() has returned, with Ok or with an error, its transaction
\* id is not a key of the in-flight table.
C38_ReturnedReadNotInflight ==
    \A t \in Readers : m_pc[t] = "done" => m_tid[t] \notin DOMAIN inflight


\* C39: the records on the bridge output channel are in strictly increasing
\* sequence_number order, for any interleaving of process() and flush().
C39_OutputInSequenceOrder ==
    \A i, j \in DOMAIN output :
        i < j => output[i].sequence_number < output[j].sequence_number


\* C40: the code error_code returned for the error held is the code of no
\* error of another kind.
C40_CodesDistinguishKinds ==
    err_code # NoCode
        => \A other \in ErrorValues :
               other.variant # err.variant => error_code(other) # err_code

=============================================================================
